---------------------------- MODULE Spec2Model ----------------------------
(***************************************************************************)
(* A model of the operators of pisap / pysap's MRI reconstruction core:    *)
(*   - the gradient operators of src/pisap/numerics/gradient.py,           *)
(*   - the Wavelet2 adapter of src/pysap/plugins/mri/reconstruct/linear.py,*)
(*   - the proximity operators of                                          *)
(*     src/pysap/plugins/mri/parallel_mri_online/proximity.py.             *)
(*                                                                         *)
(* Numbers are exact rationals <<n, d>> (d > 0, lowest terms); the float   *)
(* value nan is <<0, 0>>.  An image or a coefficient array of the gradient *)
(* operators is a vector of two rationals.   A Python call is a          *)
(* computation record [v, tr, exc]: the value, the trace of the calls made *)
(* to the external stages (Fourier op, sparsifying transform), and the     *)
(* exception raised, which every later step passes on unchanged.           *)
(***************************************************************************)
EXTENDS Integers, Sequences, FiniteSets, TLC

(***************************************************************************)
(* Bounds of the model.                                                    *)
(***************************************************************************)
MaxKeys == 2        \* most keys of a ft_cls mapping
MaxIterArg == 3     \* largest explicit max_iter argument of get_spec_rad

(***************************************************************************)
(* Optional values: an attribute that is not set is None.                  *)
(***************************************************************************)
None == <<>>
Some(x) == <<x>>
IsSet(o) == Len(o) = 1
Val(o) == o[1]

(***************************************************************************)
(* Exact rational arithmetic (the floats of numpy, without rounding).      *)
(***************************************************************************)
IAbs(i) == IF i < 0 THEN -i ELSE i

RECURSIVE GCD(_, _)
GCD(a, b) == IF b = 0 THEN a ELSE GCD(b, a % b)

Reduce(n, d, g) == IF d < 0 THEN <<(-n) \div g, (-d) \div g>> ELSE <<n \div g, d \div g>>
Rat(n, d) == IF d = 0 THEN <<0, 0>> ELSE Reduce(n, d, GCD(IAbs(n), IAbs(d)))

NaN == <<0, 0>>
IsNaN(a) == a[2] = 0
Zero == <<0, 1>>
One == <<1, 1>>
RInt(i) == <<i, 1>>

\* The sum over the least common denominator (the products stay small).
RAddOver(a, b, g) == Rat(a[1] * (b[2] \div g) + b[1] * (a[2] \div g), (a[2] \div g) * b[2])
RAdd(a, b) == IF IsNaN(a) \/ IsNaN(b) THEN NaN
              ELSE RAddOver(a, b, GCD(a[2], b[2]))
RNeg(a) == <<-a[1], a[2]>>
RSub(a, b) == RAdd(a, RNeg(b))
RMul(a, b) == IF IsNaN(a) \/ IsNaN(b) THEN NaN
              ELSE Rat(a[1] * b[1], a[2] * b[2])
\* numpy's division: 0/0 is nan.  No model input divides a non-zero number
\* by zero.
RDiv(a, b) == IF IsNaN(a) \/ IsNaN(b) \/ b[1] = 0 THEN NaN
              ELSE Rat(a[1] * b[2], a[2] * b[1])
RAbs(a) == <<IAbs(a[1]), a[2]>>
\* Comparisons with nan are False.
RLt(a, b) == ~IsNaN(a) /\ ~IsNaN(b) /\ a[1] * b[2] < b[1] * a[2]
RLe(a, b) == ~IsNaN(a) /\ ~IsNaN(b) /\ a[1] * b[2] <= b[1] * a[2]
RMax(a, b) == IF IsNaN(a) \/ IsNaN(b) THEN NaN ELSE IF RLt(a, b) THEN b ELSE a

\* The integer square root of k by bisection on lo..hi (lo*lo <= k < hi*hi).
RECURSIVE ISqrtIn(_, _, _)
ISqrtIn(k, lo, hi) ==
    IF hi - lo <= 1 THEN lo
    ELSE IF ((lo + hi) \div 2) * ((lo + hi) \div 2) <= k
         THEN ISqrtIn(k, (lo + hi) \div 2, hi)
         ELSE ISqrtIn(k, lo, (lo + hi) \div 2)
ISqrt(k) == ISqrtIn(k, 0, k + 1)

\* The square root of a rational that has a rational one.  Inexact marks a
\* root the model cannot represent; the inputs are chosen so that it never
\* arises (NormsExact).
Inexact == <<-1, 1>>
RootOf(a, p, q) == IF p * p = a[1] /\ q * q = a[2] THEN <<p, q>> ELSE Inexact
RSqrt(a) == IF IsNaN(a) THEN NaN ELSE RootOf(a, ISqrt(a[1]), ISqrt(a[2]))

(***************************************************************************)
(* Vectors of rationals.                                                   *)
(***************************************************************************)
VIdx == {1, 2}
VAdd(u, v) == [i \in VIdx |-> RAdd(u[i], v[i])]
VSub(u, v) == [i \in VIdx |-> RSub(u[i], v[i])]
VMul(u, v) == [i \in VIdx |-> RMul(u[i], v[i])]
VDivS(u, s) == [i \in VIdx |-> RDiv(u[i], s)]
VZero == [i \in VIdx |-> Zero]

RECURSIVE SumSq(_, _)
SumSq(v, k) == IF k = 0 THEN Zero ELSE RAdd(RMul(v[k], v[k]), SumSq(v, k - 1))


\* generic_l2_norm of pisap.base.utils: the L2 norm of an array.
Norm(v) == RSqrt(SumSq(v, 2))

(***************************************************************************)
(* Computations: the value so far, the external stage calls made, and the  *)
(* exception raised ("none" while the computation runs normally).          *)
(***************************************************************************)
Ret(v) == [v |-> v, tr |-> <<>>, exc |-> "none"]
Raise(r, e) == IF r.exc # "none" THEN r ELSE [r EXCEPT !.exc = e]
Then(r, v, call) == IF r.exc # "none" THEN r
                    ELSE [r EXCEPT !.v = v, !.tr = Append(r.tr, call)]

(***************************************************************************)
(* The external stages.  A forward model (ft_cls) is the real operator    *)
(* M = D P, P the swap of the two samples and D a diagonal of gains (a     *)
(* sampling mask): op applies M and adj_op its transpose P D.  The          *)
(* sparsifying transform (linear_cls) is the orthogonal map                *)
(* (a, b) -> (-b, a): adj_op is its transpose (a, b) -> (b, -a).           *)
(***************************************************************************)
Swap(v) == [i \in VIdx |-> IF i = 1 THEN v[2] ELSE v[1]]
FtOp(m, r) == Then(r, VMul(m.gain, Swap(r.v)), "ft.op")
FtAdjOp(m, r) == Then(r, Swap(VMul(m.gain, r.v)), "ft.adj_op")
Rot(v) == [i \in VIdx |-> IF i = 1 THEN RNeg(v[2]) ELSE v[1]]
RotT(v) == [i \in VIdx |-> IF i = 1 THEN v[2] ELSE RNeg(v[1])]
LinOp(r) == Then(r, Rot(r.v), "linear.op")
LinAdjOp(r) == Then(r, RotT(r.v), "linear.adj_op")


(***************************************************************************)
(* State.  One gradient object at a time: the attributes the code sets on  *)
(* self, the class it was made from, and whether __init__ returned.        *)
(***************************************************************************)
VARIABLES
    cls,            \* class of the gradient object ("none" before any)
    built,          \* TRUE once its constructor has returned normally
    y,              \* self.y
    ft,             \* self.ft_cls, the forward-model instance
    smap,           \* self.smap (Grad2DSynthese_Pmri)
    mask,           \* self.mask (Grad2DSynthese_Pmri)
    spec_rad,       \* self.spec_rad
    inv_spec_rad,   \* self.inv_spec_rad
    grad,           \* self.grad
    last            \* what the last call did (history)

gvars == <<cls, built, y, ft, smap, mask, spec_rad, inv_spec_rad, grad, last>>

\* The Wavelet2 adapter of linear.py.
VARIABLES
    wav,            \* the adapter: its attributes, and whether __init__ returned
    held,           \* the coefficient arrays the caller holds, each with the
                    \* op call that made it and that call's manifest (history)
    nops,           \* op calls made on the adapter so far
    wlast           \* what the last call on the adapter did (history)

wvars == <<wav, held, nops, wlast>>

\* A proximity operator of proximity.py.
VARIABLES
    prox,           \* the operator: its class, its attributes, whether built
    plast           \* what the last call on the operator did (history)

pvars == <<prox, plast>>

\* What the calls on one object leave alone: the other objects.
NotGrad == <<wvars, pvars>>
NotLinear == <<gvars, pvars>>
NotProx == <<gvars, wvars>>

\* The object a method sees as self.
Self == [cls |-> cls, y |-> y, ft |-> ft, smap |-> smap, mask |-> mask,
         spec_rad |-> spec_rad, inv_spec_rad |-> inv_spec_rad, grad |-> grad]

NoObject == [cls |-> "none", y |-> None, ft |-> None, smap |-> None, mask |-> None,
             spec_rad |-> None, inv_spec_rad |-> None, grad |-> None]

\* The record of a call: its name, its argument x, what it returned, the
\* exception it raised, the external stage calls it made in order, the
\* forward models it instantiated, the get_spec_rad runs inside it, and
\* the number of keys of a constructor's ft_cls mapping (-1: no mapping).
NoCall == [op |-> "none", x |-> None, ret |-> None, exc |-> "none", tr |-> <<>>,
           ninst |-> 0, sr |-> <<>>, nkeys |-> -1]

(***************************************************************************)
(* GradBase (lines 27-144).                                                *)
(***************************************************************************)
\* An MX that returns zeros where GradBase.MX raises.
BaseMXZeros(r) == [r EXCEPT !.v = VZero]

\* GradBase.get_initial_x, MX, MtX: lines 33-75.
BaseGetInitialX(r) == Raise(r, "NotImplementedError")
BaseMX(r) == Raise(r, "NotImplementedError")
BaseMtX(r) == Raise(r, "NotImplementedError")

\* Grad2DAnalysis.get_initial_x, MX, MtX: lines 173-212.  x0 is the draw of
\* np.random.random.
AnaGetInitialX(o, x0, r) == IF r.exc # "none" THEN r ELSE [r EXCEPT !.v = x0]
AnaMX(o, r) == FtOp(Val(o.ft), r)
AnaMtX(o, r) == FtAdjOp(Val(o.ft), r)

\* An MtX that runs its two stages in the order of MX.
SynMtXForwardOrder(o, r) == FtAdjOp(Val(o.ft), LinOp(r))

\* Grad2DSynthesis.get_initial_x, MX, MtX: lines 244-287.
SetValue(r, v) == IF r.exc # "none" THEN r ELSE [r EXCEPT !.v = v]
SynGetInitialX(o, x0, r) == SetValue(LinOp([r EXCEPT !.v = VZero]), x0)
SynMX(o, r) == FtOp(Val(o.ft), LinAdjOp(r))
SynMtX(o, r) == LinOp(FtAdjOp(Val(o.ft), r))

\* Method resolution on the object's class.
GetInitialX(o, x0, r) ==
    CASE o.cls = "Grad2DAnalysis" -> AnaGetInitialX(o, x0, r)
      [] o.cls = "Grad2DSynthesis" -> SynGetInitialX(o, x0, r)
      [] OTHER -> BaseGetInitialX(r)
MX(o, r) ==
    CASE o.cls = "Grad2DAnalysis" -> AnaMX(o, r)
      [] o.cls = "Grad2DSynthesis" -> SynMX(o, r)
      [] OTHER -> BaseMX(r)
MtX(o, r) ==
    CASE o.cls = "Grad2DAnalysis" -> AnaMtX(o, r)
      [] o.cls = "Grad2DSynthesis" -> SynMtX(o, r)
      [] OTHER -> BaseMtX(r)

\* GradBase.MtMX: line 122.
MtMX(o, r) == MtX(o, MX(o, r))


(***************************************************************************)
(* GradBase.get_spec_rad: lines 77-101.                                    *)
(***************************************************************************)
DefaultTolerance == <<1, 10000>>
DefaultMaxIter == 20
DefaultCoefMul == <<11, 10>>

\* A convergence test on the relative change of the norm.
RelativeStopTest(n_new, n_old, tolerance) ==
    RLt(RDiv(RAbs(RSub(n_new, n_old)), n_old), tolerance)

\* The convergence test of line 97.
StopTest(n_new, n_old, tolerance) == RLt(RAbs(RSub(n_new, n_old)), tolerance)

\* One pass of the loop body, lines 96-99.  st is the loop's state: x_old,
\* x_new (unbound before the first pass), the passes made, whether the
\* pass broke out, the computation so far and the norms of x_0, x_1, ...
\* r is the computation of MtMX(x_old) and xn the new iterate.
StepTo(st, r, xn, stop) ==
    [x_old |-> IF stop THEN st.x_old ELSE xn,
     x_new |-> Some(xn),
     n |-> st.n + 1,
     brk |-> stop,
     c |-> r,
     norms |-> Append(st.norms, Norm(xn))]
StepNew(st, r, xn, tolerance) ==
    StepTo(st, r, xn, StopTest(Norm(xn), Norm(st.x_old), tolerance))
StepWith(st, r, tolerance) ==
    IF r.exc # "none" THEN [st EXCEPT !.c = r]
    ELSE StepNew(st, r, VDivS(r.v, Norm(st.x_old)), tolerance)
PowerStep(o, st, tolerance) == StepWith(st, MtMX(o, [st.c EXCEPT !.v = st.x_old]), tolerance)

\* for i in xrange(max_iter): line 95.
RECURSIVE PowerLoop(_, _, _, _)
PowerLoop(o, st, tolerance, max_iter) ==
    IF st.n >= max_iter \/ st.brk \/ st.c.exc # "none" THEN st
    ELSE PowerLoop(o, PowerStep(o, st, tolerance), tolerance, max_iter)

\* The loop's state when it is entered with the computation r0 of
\* get_initial_x (line 92).
LoopStart(r0) ==
    [x_old |-> r0.v, x_new |-> None, n |-> 0, brk |-> FALSE, c |-> r0,
     norms |-> IF r0.exc # "none" THEN <<>> ELSE <<Norm(r0.v)>>]

\* Lines 100-101 on the loop's final state st.  The result holds the
\* exception, the stage calls, the two attributes as the method leaves
\* them, and the record of the run.
SetSpecRad(res, sr) ==
    [res EXCEPT !.spec_rad = Some(sr), !.inv_spec_rad = Some(RDiv(One, sr))]
\* Lines 100-101 without the factor coef_mul.
SpecRadUnscaled(st, res, coef_mul) ==
    IF st.c.exc # "none" THEN res
    ELSE IF ~IsSet(st.x_new) THEN [res EXCEPT !.exc = "UnboundLocalError"]
    ELSE SetSpecRad(res, Norm(Val(st.x_new)))
SpecRadResult(st, res, coef_mul) ==
    IF st.c.exc # "none" THEN res
    ELSE IF ~IsSet(st.x_new) THEN [res EXCEPT !.exc = "UnboundLocalError"]
    ELSE SetSpecRad(res, RMul(coef_mul, Norm(Val(st.x_new))))
SpecRadAfter(o, st, tolerance, max_iter, coef_mul) ==
    SpecRadResult(st,
                  [exc |-> st.c.exc, tr |-> st.c.tr, spec_rad |-> o.spec_rad,
                   inv_spec_rad |-> o.inv_spec_rad,
                   run |-> [tolerance |-> tolerance, max_iter |-> max_iter,
                            coef_mul |-> coef_mul, n |-> st.n, norms |-> st.norms,
                            x_new |-> st.x_new]],
                  coef_mul)

\* The whole method.
GetSpecRad(o, x0, tolerance, max_iter, coef_mul) ==
    SpecRadAfter(o,
                 PowerLoop(o, LoopStart(GetInitialX(o, x0, Ret(VZero))), tolerance, max_iter),
                 tolerance, max_iter, coef_mul)

\* GradBase.get_grad: line 144.  The result is the computation; its value
\* is what the method assigns to self.grad.
MinusY(o, mx) == IF mx.exc # "none" THEN mx ELSE [mx EXCEPT !.v = VSub(mx.v, Val(o.y))]
GetGrad(o, x) == MtX(o, MinusY(o, MX(o, Ret(x))))

(***************************************************************************)
(* The constructors of Grad2DAnalysis (lines 159-171) and Grad2DSynthesis  *)
(* (lines 229-242).  ft_cls is an instance, or a mapping from forward      *)
(* model classes to their arguments; keys lists the forward models the     *)
(* mapping's keys would make.                                              *)
(***************************************************************************)
\* The exception each constructor raises for a mapping of several keys.
AnaMultiKeyError == "ValueError"
SynMultiKeyError == "NameError"     \* raise valueerror(...): an unbound name

\* Lines 164-170 and 234-240: the object after the ft_cls branch, the
\* exception raised and the forward models instantiated.
SetFtCls(o, ft_cls, multi_key_error) ==
    IF ft_cls.kind = "dict"
    THEN IF Len(ft_cls.keys) > 1
         THEN [o |-> o, exc |-> multi_key_error, ninst |-> 0, nkeys |-> Len(ft_cls.keys)]
         ELSE IF Len(ft_cls.keys) = 0
         THEN [o |-> o, exc |-> "IndexError", ninst |-> 0, nkeys |-> 0]
         ELSE [o |-> [o EXCEPT !.ft = Some(ft_cls.keys[1])], exc |-> "none", ninst |-> 1,
               nkeys |-> 1]
    ELSE [o |-> [o EXCEPT !.ft = Some(ft_cls.keys[1])], exc |-> "none", ninst |-> 0,
          nkeys |-> -1]

\* The rest of either constructor: self.get_spec_rad() with its defaults.
InitDone(name, f, g) ==
    [o |-> [f.o EXCEPT !.spec_rad = g.spec_rad, !.inv_spec_rad = g.inv_spec_rad],
     built |-> g.exc = "none",
     call |-> [NoCall EXCEPT !.op = name, !.exc = g.exc, !.tr = g.tr,
                             !.ninst = f.ninst, !.sr = <<g.run>>, !.nkeys = f.nkeys]]
InitTail(name, f, x0) ==
    IF f.exc # "none"
    THEN [o |-> f.o, built |-> FALSE,
          call |-> [NoCall EXCEPT !.op = name, !.exc = f.exc, !.ninst = f.ninst,
                                  !.nkeys = f.nkeys]]
    ELSE InitDone(name, f,
                  GetSpecRad(f.o, x0, DefaultTolerance, DefaultMaxIter, DefaultCoefMul))

AnaInit(data, ft_cls, x0) ==
    InitTail("Grad2DAnalysis.__init__",
             SetFtCls([NoObject EXCEPT !.cls = "Grad2DAnalysis", !.y = Some(data)],
                      ft_cls, AnaMultiKeyError),
             x0)

SynInit(data, ft_cls, x0) ==
    InitTail("Grad2DSynthesis.__init__",
             SetFtCls([NoObject EXCEPT !.cls = "Grad2DSynthesis", !.y = Some(data)],
                      ft_cls, SynMultiKeyError),
             x0)


(***************************************************************************)
(* Grad2DSynthese_Pmri (lines 290-428).  self.y and self.smap hold one     *)
(* vector per channel.  pfft.fft2 is the two-point transform               *)
(* (a, b) -> (a + b, a - b) and pfft.ifft2 its inverse.                    *)
(***************************************************************************)
Chan == {1, 2}
FFT2(v) == [i \in VIdx |-> IF i = 1 THEN RAdd(v[1], v[2]) ELSE RSub(v[1], v[2])]
IFFT2(v) == [i \in VIdx |-> RDiv(IF i = 1 THEN RAdd(v[1], v[2]) ELSE RSub(v[1], v[2]),
                                 RInt(2))]
ChanSum(w) == VAdd(w[1], w[2])

\* The parameters, besides self, of MX, MtX and MtMX: lines 339, 362, 384.
PmriMXParams == 2
PmriMtXParams == 2
PmriMtMXParams == 2

\* The bodies of MX (lines 359-360) and MtX (lines 381-382), run on the
\* last argument (the body never reads its smap parameter).
PmriSample(o, img) ==
    Then(img, [c \in Chan |-> VMul(Val(o.mask), FFT2(VMul(Val(o.smap)[c], img.v)))], "fft2")
PmriMXBody(o, r) == PmriSample(o, LinAdjOp(r))
PmriBack(o, r) ==
    Then(r, [c \in Chan |-> VMul(Val(o.smap)[c], IFFT2(VMul(Val(o.mask), r.v[c])))], "ifft2")
PmriAnalyse(back) == Then(back, [c \in Chan |-> Rot(back.v[c])], "linear.op")
PmriMtXBody(o, r) == PmriAnalyse(PmriBack(o, r))

\* A call of the method with nargs positional arguments: Python raises
\* TypeError when they are not the parameters of the def.
PmriMX(o, nargs, r) ==
    IF nargs # PmriMXParams THEN Raise(r, "TypeError") ELSE PmriMXBody(o, r)
PmriMtX(o, nargs, r) ==
    IF nargs # PmriMtXParams THEN Raise(r, "TypeError") ELSE PmriMtXBody(o, r)

\* MtMX, line 405: the body reads x, which is no parameter (smap, coeffs)
\* and no global: NameError.
PmriMtMX(o, nargs, r) ==
    IF nargs # PmriMtMXParams THEN Raise(r, "TypeError") ELSE Raise(r, "NameError")

\* get_grad, line 428; the value of the result is assigned to self.grad.
PmriMinusY(o, mx) ==
    IF mx.exc # "none" THEN mx
    ELSE [mx EXCEPT !.v = [c \in Chan |-> VSub(mx.v[c], Val(o.y)[c])]]
PmriSum(back) == IF back.exc # "none" THEN back ELSE [back EXCEPT !.v = ChanSum(back.v)]
PmriGetGrad(o, x) == PmriSum(PmriMtX(o, 1, PmriMinusY(o, PmriMX(o, 1, Ret(x)))))

(***************************************************************************)
(* The inputs of the gradient operators.                                   *)
(***************************************************************************)
V2(a, b) == [i \in VIdx |-> IF i = 1 THEN a ELSE b]

\* Forward models: the full mask (M is then orthogonal and MtMX the
\* identity), and a mask of gain 2 that drops one sample.
FtModels == {[gain |-> V2(One, One)], [gain |-> V2(RInt(2), Zero)]}
\* ft_cls arguments: an instance, or a mapping of 0..MaxKeys keys.
FtArgs == {[kind |-> "inst", keys |-> <<m>>] : m \in FtModels}
          \cup {[kind |-> "dict", keys |-> ks] :
                    ks \in UNION {[1..n -> FtModels] : n \in 0..MaxKeys}}
\* Observations y, arguments x, and the draws of np.random.random (every
\* entry in (0, 1)).
Datas == {V2(One, RInt(2))}
Xs == {V2(One, Zero), V2(RInt(3), RInt(4))}
X0s == {V2(<<3, 5>>, <<4, 5>>), V2(<<3, 10>>, <<2, 5>>)}
\* The arguments of an explicit get_spec_rad call.
Tolerances == {DefaultTolerance, <<3, 4>>}
MaxIters == 0..MaxIterArg \cup {DefaultMaxIter}
CoefMuls == {DefaultCoefMul, One}
\* Grad2DSynthese_Pmri: per-channel data, sensitivity maps and mask.
PmriDatas == {[c \in Chan |-> V2(One, RInt(c))]}
PmriSmaps == {[c \in Chan |-> V2(One, RInt(c))]}
PmriMasks == {V2(One, One), V2(One, Zero)}


(***************************************************************************)
(* The operations on the gradient object.                                  *)
(***************************************************************************)
SetObject(o) ==
    /\ cls' = o.cls
    /\ y' = o.y
    /\ ft' = o.ft
    /\ smap' = o.smap
    /\ mask' = o.mask
    /\ spec_rad' = o.spec_rad
    /\ inv_spec_rad' = o.inv_spec_rad
    /\ grad' = o.grad

\* The record of a call that ran computation r on argument x.
CallOf(name, x, r) ==
    [NoCall EXCEPT !.op = name, !.x = x, !.exc = r.exc, !.tr = r.tr,
                   !.ret = IF r.exc = "none" THEN Some(r.v) ELSE None]

\* GradBase(): the class has no __init__, the object no attribute.
NewGradBase ==
    /\ SetObject([NoObject EXCEPT !.cls = "GradBase"])
    /\ built' = TRUE
    /\ last' = [NoCall EXCEPT !.op = "GradBase.__init__"]
    /\ UNCHANGED NotGrad

NewGrad2DAnalysis ==
    /\ \E data \in Datas, ft_cls \in FtArgs, x0 \in X0s :
            \E r \in {AnaInit(data, ft_cls, x0)} :
                SetObject(r.o) /\ built' = r.built /\ last' = r.call
    /\ UNCHANGED NotGrad

NewGrad2DSynthesis ==
    /\ \E data \in Datas, ft_cls \in FtArgs, x0 \in X0s :
            \E r \in {SynInit(data, ft_cls, x0)} :
                SetObject(r.o) /\ built' = r.built /\ last' = r.call
    /\ UNCHANGED NotGrad

\* The attributes lines 316-321 set.  PowerMethod, the base class whose
\* __init__ and get_spec_rad lines 326-327 run, is not among the sources:
\* its run is left out.
NewGrad2DSynthesePmri ==
    /\ \E data \in PmriDatas, sm \in PmriSmaps, mk \in PmriMasks :
            /\ SetObject([NoObject EXCEPT !.cls = "Grad2DSynthese_Pmri", !.y = Some(data),
                                          !.smap = Some(sm), !.mask = Some(mk)])
            /\ built' = TRUE
            /\ last' = [NoCall EXCEPT !.op = "Grad2DSynthese_Pmri.__init__"]
    /\ UNCHANGED NotGrad

GradBaseFamily == {"GradBase", "Grad2DAnalysis", "Grad2DSynthesis"}
IsGradBase == built /\ cls \in GradBaseFamily
IsPmri == built /\ cls = "Grad2DSynthese_Pmri"

CallGetInitialX ==
    /\ IsGradBase
    /\ \E x0 \in X0s : last' = CallOf("get_initial_x", None, GetInitialX(Self, x0, Ret(VZero)))
    /\ UNCHANGED <<cls, built, y, ft, smap, mask, spec_rad, inv_spec_rad, grad>>
    /\ UNCHANGED NotGrad

CallMX ==
    /\ IsGradBase
    /\ \E x \in Xs : last' = CallOf("MX", Some(x), MX(Self, Ret(x)))
    /\ UNCHANGED <<cls, built, y, ft, smap, mask, spec_rad, inv_spec_rad, grad>>
    /\ UNCHANGED NotGrad

CallMtX ==
    /\ IsGradBase
    /\ \E x \in Xs : last' = CallOf("MtX", Some(x), MtX(Self, Ret(x)))
    /\ UNCHANGED <<cls, built, y, ft, smap, mask, spec_rad, inv_spec_rad, grad>>
    /\ UNCHANGED NotGrad

CallMtMX ==
    /\ IsGradBase
    /\ \E x \in Xs : last' = CallOf("MtMX", Some(x), MtMX(Self, Ret(x)))
    /\ UNCHANGED <<cls, built, y, ft, smap, mask, spec_rad, inv_spec_rad, grad>>
    /\ UNCHANGED NotGrad

\* What get_grad(x) leaves in the object.
AssignGrad(o, r) == IF r.exc = "none" THEN [o EXCEPT !.grad = Some(r.v)] ELSE o
GetGradEffect(o, x) == AssignGrad(o, GetGrad(o, x))

CallGetGrad ==
    /\ IsGradBase
    /\ \E x \in Xs, o \in {Self} :
        /\ last' = [CallOf("get_grad", Some(x), GetGrad(o, x)) EXCEPT !.ret = None]
        /\ \E after \in {GetGradEffect(o, x)} : SetObject(after)
    /\ UNCHANGED built
    /\ UNCHANGED NotGrad

CallGetSpecRad ==
    /\ IsGradBase
    /\ \E x0 \in X0s, tolerance \in Tolerances, max_iter \in MaxIters, coef_mul \in CoefMuls :
        \E g \in {GetSpecRad(Self, x0, tolerance, max_iter, coef_mul)} :
            /\ last' = [NoCall EXCEPT !.op = "get_spec_rad", !.exc = g.exc, !.tr = g.tr,
                                      !.sr = <<g.run>>]
            /\ spec_rad' = g.spec_rad
            /\ inv_spec_rad' = g.inv_spec_rad
    /\ UNCHANGED <<cls, built, y, ft, smap, mask, grad>>
    /\ UNCHANGED NotGrad

\* What Grad2DSynthese_Pmri.get_grad(x) leaves in the object.
PmriGetGradEffect(o, x) == AssignGrad(o, PmriGetGrad(o, x))

CallPmriGetGrad ==
    /\ IsPmri
    /\ \E x \in Xs, o \in {Self} :
        /\ last' = [CallOf("Pmri.get_grad", Some(x), PmriGetGrad(o, x)) EXCEPT !.ret = None]
        /\ \E after \in {PmriGetGradEffect(o, x)} : SetObject(after)
    /\ UNCHANGED built
    /\ UNCHANGED NotGrad

CallPmriMtMX ==
    /\ IsPmri
    /\ \E x \in Xs : last' = CallOf("Pmri.MtMX", Some(x), PmriMtMX(Self, 1, Ret(x)))
    /\ UNCHANGED <<cls, built, y, ft, smap, mask, spec_rad, inv_spec_rad, grad>>
    /\ UNCHANGED NotGrad

(***************************************************************************)
(* Wavelet2 (src/pysap/plugins/mri/reconstruct/linear.py).  An image is a  *)
(* sequence of integers of even length.  The external transform splits an *)
(* image into two bands, its odd-indexed and its even-indexed samples, and *)
(* its synthesis interleaves them again; pysap's flatten concatenates the  *)
(* bands and returns their sizes, the shape manifest, and unflatten cuts a *)
(* flat array back into bands of the manifest's sizes.                     *)
(***************************************************************************)
MaxOps == 3         \* most op calls on one adapter (l2norm's included)
MaxHeld == 2        \* most coefficient arrays the caller keeps

\* pysap.AVAILABLE_TRANSFORMS, and the names a caller may ask for.
AvailableTransforms == {"Haar", "Db4"}
WaveletNames == AvailableTransforms \cup {"NoSuchTransform"}
DefaultNbScale == 4

NoWavelet == [built |-> FALSE, nb_scale |-> None, multichannel |-> None,
              transform |-> None, coeffs_shape |-> None]
NoWCall == [op |-> "none", exc |-> "none", name |-> "", steps |-> <<>>, ret |-> None,
            cid |-> 0, made |-> None, used |-> None]

\* A constructor that loads the transform class before it looks the name
\* up in the registry.
Wavelet2InitLoadFirst(wavelet_name, nb_scale, multichannel) ==
    IF wavelet_name \notin AvailableTransforms
    THEN [w |-> [NoWavelet EXCEPT !.nb_scale = Some(nb_scale),
                                  !.multichannel = Some(multichannel)],
          exc |-> "ValueError", steps |-> <<"load_transform">>]
    ELSE [w |-> [built |-> TRUE, nb_scale |-> Some(nb_scale),
                 multichannel |-> Some(multichannel),
                 transform |-> Some([name |-> wavelet_name, nb_scale |-> nb_scale]),
                 coeffs_shape |-> None],
          exc |-> "none", steps |-> <<"load_transform", "transform_klass">>]

\* Wavelet2.__init__: lines 39-49.  The result holds the object as the
\* constructor leaves it, the exception, and the steps taken to build the
\* transform.
Wavelet2Init(wavelet_name, nb_scale, multichannel) ==
    IF wavelet_name \notin AvailableTransforms
    THEN [w |-> [NoWavelet EXCEPT !.nb_scale = Some(nb_scale),
                                  !.multichannel = Some(multichannel)],
          exc |-> "ValueError", steps |-> <<>>]
    ELSE [w |-> [built |-> TRUE, nb_scale |-> Some(nb_scale),
                 multichannel |-> Some(multichannel),
                 transform |-> Some([name |-> wavelet_name, nb_scale |-> nb_scale]),
                 coeffs_shape |-> None],
          exc |-> "none", steps |-> <<"load_transform", "transform_klass">>]

\* The external transform and pysap.base.utils.flatten / unflatten.
Odds(img) == [i \in 1..(Len(img) \div 2) |-> img[2 * i - 1]]
Evens(img) == [i \in 1..(Len(img) \div 2) |-> img[2 * i]]
TransformAnalysis(img) == <<Odds(img), Evens(img)>>
TransformSynthesis(bands) ==
    [i \in 1..(Len(bands[1]) + Len(bands[2])) |->
        IF i % 2 = 1 THEN bands[1][(i + 1) \div 2] ELSE bands[2][i \div 2]]
Flatten(bands) == [c |-> bands[1] \o bands[2], shape |-> <<Len(bands[1]), Len(bands[2])>>]
\* unflatten slices y[start:stop] and reshapes each slice to its size: a
\* slice cut short by the end of the array cannot be reshaped (ValueError),
\* and coefficients past the manifest's total are dropped silently.
UnflattenFits(c, shape) == shape[1] + shape[2] <= Len(c)
Unflatten(c, shape) == <<SubSeq(c, 1, shape[1]), SubSeq(c, shape[1] + 1, shape[1] + shape[2])>>

\* The body of op for one image: lines 79-81 (and 72-74 for a channel).
OneOp(img) == Flatten(TransformAnalysis(img))

\* Wavelet2.op: lines 66-82.  id names the call.  The result holds the
\* coefficients returned and the manifest left in self.coeffs_shape.
Wavelet2Op(w, data, id) ==
    IF Val(w.multichannel)
    THEN [ret |-> [ch \in 1..Len(data) |-> OneOp(data[ch]).c],
          coeffs_shape |-> [by |-> id, m |-> [ch \in 1..Len(data) |-> OneOp(data[ch]).shape]]]
    ELSE [ret |-> OneOp(data).c, coeffs_shape |-> [by |-> id, m |-> OneOp(data).shape]]

\* Wavelet2.adj_op: lines 102-115.  zip stops at the shorter of the
\* channels and the manifests; with self.coeffs_shape None, zip (line 104)
\* and unflatten's loop over the manifest raise TypeError.
IMin(a, b) == IF a < b THEN a ELSE b
Wavelet2AdjOp(w, coeffs) ==
    IF ~IsSet(w.coeffs_shape) THEN [exc |-> "TypeError", ret |-> None]
    ELSE IF Val(w.multichannel)
    THEN IF \E ch \in 1..IMin(Len(coeffs), Len(Val(w.coeffs_shape).m)) :
                ~UnflattenFits(coeffs[ch], Val(w.coeffs_shape).m[ch])
         THEN [exc |-> "ValueError", ret |-> None]
         ELSE [exc |-> "none",
               ret |-> Some([ch \in 1..IMin(Len(coeffs), Len(Val(w.coeffs_shape).m)) |->
                        TransformSynthesis(Unflatten(coeffs[ch], Val(w.coeffs_shape).m[ch]))])]
    ELSE IF ~UnflattenFits(coeffs, Val(w.coeffs_shape).m)
         THEN [exc |-> "ValueError", ret |-> None]
         ELSE [exc |-> "none",
               ret |-> Some(TransformSynthesis(Unflatten(coeffs, Val(w.coeffs_shape).m)))]

\* Wavelet2.l2norm: lines 131-140.  shape is rounded up to even sizes and
\* the fake data is zero but for a one at the centre index.
RoundUp(n) == n + (n % 2)
Impulse(n) == [i \in 1..n |-> IF i = (n \div 2) + 1 THEN 1 ELSE 0]
ZeroImage(n) == [i \in 1..n |-> 0]
\* shape is <<n>> for an image, <<channels, n>> for a multichannel array.
FakeData(shape) ==
    IF Len(shape) = 1 THEN Impulse(RoundUp(shape[1]))
    ELSE [ch \in 1..RoundUp(shape[1]) |->
            IF ch = (RoundUp(shape[1]) \div 2) + 1 THEN Impulse(RoundUp(shape[2]))
            ELSE ZeroImage(RoundUp(shape[2]))]
RECURSIVE SeqSumSq(_, _)
SeqSumSq(c, k) == IF k = 0 THEN 0 ELSE c[k] * c[k] + SeqSumSq(c, k - 1)
RECURSIVE ArraySumSq(_, _)
ArraySumSq(cs, k) == IF k = 0 THEN 0 ELSE SeqSumSq(cs[k], Len(cs[k])) + ArraySumSq(cs, k - 1)
LinalgNorm(w, data) ==
    IF Val(w.multichannel) THEN RSqrt(RInt(ArraySumSq(data, Len(data))))
    ELSE RSqrt(RInt(SeqSumSq(data, Len(data))))
Wavelet2L2Norm(w, shape, id) ==
    [ret |-> LinalgNorm(w, Wavelet2Op(w, FakeData(shape), id).ret),
     coeffs_shape |-> Wavelet2Op(w, FakeData(shape), id).coeffs_shape]

\* The inputs of the adapter.
Images == {<<1, 2>>, <<1, 2, 3, 4>>}
WaveletData(multichannel) ==
    IF multichannel THEN {<<a>> : a \in Images} \cup {<<a, a>> : a \in Images}
    ELSE Images
ShapeArgs(multichannel) ==
    IF multichannel THEN {<<1, 3>>, <<2, 2>>} ELSE {<<1>>, <<2>>, <<3>>}
\* Coefficients that no op call of the adapter made.
ForeignCoeffs(multichannel) == IF multichannel THEN <<<<5, 6>>>> ELSE <<5, 6>>

NewWavelet2 ==
    /\ \E wavelet_name \in WaveletNames, multichannel \in BOOLEAN :
            \E r \in {Wavelet2Init(wavelet_name, DefaultNbScale, multichannel)} :
                /\ wav' = r.w
                /\ held' = <<>>
                /\ nops' = 0
                /\ wlast' = [NoWCall EXCEPT !.op = "__init__", !.exc = r.exc,
                                            !.name = wavelet_name, !.steps = r.steps]
    /\ UNCHANGED NotLinear

\* The caller keeps the newest MaxHeld coefficient arrays.
Keep(hs, h) == IF Len(hs) < MaxHeld THEN Append(hs, h) ELSE Append(Tail(hs), h)

CallWavelet2Op ==
    /\ wav.built
    /\ nops < MaxOps
    /\ \E data \in WaveletData(Val(wav.multichannel)) :
        \E r \in {Wavelet2Op(wav, data, nops + 1)} :
            /\ wav' = [wav EXCEPT !.coeffs_shape = Some(r.coeffs_shape)]
            /\ held' = Keep(held, [c |-> r.ret, id |-> nops + 1, m |-> r.coeffs_shape.m])
            /\ wlast' = [NoWCall EXCEPT !.op = "op", !.ret = Some(r.ret), !.cid = nops + 1,
                                        !.made = Some(r.coeffs_shape.m)]
    /\ nops' = nops + 1
    /\ UNCHANGED NotLinear

CallWavelet2L2Norm ==
    /\ wav.built
    /\ nops < MaxOps
    /\ \E shape \in ShapeArgs(Val(wav.multichannel)) :
        \E r \in {Wavelet2L2Norm(wav, shape, nops + 1)} :
            /\ wav' = [wav EXCEPT !.coeffs_shape = Some(r.coeffs_shape)]
            /\ wlast' = [NoWCall EXCEPT !.op = "l2norm", !.ret = Some(r.ret), !.cid = nops + 1,
                                        !.made = Some(r.coeffs_shape.m)]
    /\ nops' = nops + 1
    /\ UNCHANGED held
    /\ UNCHANGED NotLinear

\* adj_op on coefficients the caller holds, or on foreign ones (cid 0).
AdjOpArgs ==
    {held[i] : i \in 1..Len(held)}
    \cup {[c |-> ForeignCoeffs(Val(wav.multichannel)), id |-> 0, m |-> <<>>]}

CallWavelet2AdjOp ==
    /\ wav.built
    /\ \E h \in AdjOpArgs :
        \E r \in {Wavelet2AdjOp(wav, h.c)} :
            wlast' = [NoWCall EXCEPT !.op = "adj_op", !.exc = r.exc, !.ret = r.ret,
                                     !.cid = h.id,
                                     !.made = IF h.id = 0 THEN None ELSE Some(h.m),
                                     !.used = wav.coeffs_shape]
    /\ UNCHANGED <<wav, held, nops>>
    /\ UNCHANGED NotLinear

WaveletInit ==
    /\ wav = NoWavelet
    /\ held = <<>>
    /\ nops = 0
    /\ wlast = NoWCall

WaveletNext ==
    \/ NewWavelet2
    \/ CallWavelet2Op
    \/ CallWavelet2L2Norm
    \/ CallWavelet2AdjOp

(***************************************************************************)
(* Proximity operators (parallel_mri_online/proximity.py).  An array is    *)
(* its shape and its entries in row-major order; the leading axis of a     *)
(* two-dimensional array is the channel axis.                              *)
(***************************************************************************)
Arr(shape, v) == [shape |-> shape, v |-> v]
NCols(a) == IF Len(a.shape) = 1 THEN 1 ELSE a.shape[2]
ColOf(a, i) == ((i - 1) % NCols(a)) + 1
Column(a, j) == [ch \in 1..a.shape[1] |-> a.v[(ch - 1) * NCols(a) + j]]
ArrFlatten(a) == Arr(<<Len(a.v)>>, a.v)
HasNaN(a) == \E i \in 1..Len(a.v) : IsNaN(a.v[i])

\* numpy.finfo(numpy.float32).eps
Eps32 == <<1, 8388608>>

\* The attributes an operator can hold; weights is a list of vectors (one
\* vector of one entry for a scalar).
NoProx == [cls |-> "none", built |-> FALSE, weights |-> None, mode |-> None,
           band_shape |-> None, k |-> None,
           weights_l1 |-> None, weights_l2 |-> None,
           prox_op_l1 |-> None, prox_op_l2 |-> None,
           patch_shape |-> None, overlapping_factor |-> None,
           _weights |-> None, _patch_shape |-> None, linear_op |-> None]
\* A call: its arguments and what it returned or raised.  While a call
\* that hands its patches to joblib's workers is running, P holds the
\* patches, taken the patches a worker is on and results what the workers
\* have returned so far.
NoPCall == [op |-> "none", data |-> None, extra_factor |-> None, ret |-> None,
            exc |-> "none", num_cores |-> None, running |-> FALSE,
            P |-> <<>>, taken |-> {}, results |-> <<>>,
            warnings |-> 0, threshold |-> <<>>]
Pending == [exc |-> "pending", ret |-> None]
\* No call is running: the calls are synchronous.
Idle == ~plast.running
Scalar(w) == <<<<w>>>>

\* numpy.linalg.norm(data, axis=0) at column j: sqrt(sum |v|^2), taken as
\* m * sqrt(sum |v/m|^2) with m the largest magnitude, which is the same
\* number and keeps the squares of very small entries representable.
RECURSIVE MaxAbs(_, _)
MaxAbs(v, k) == IF k = 0 THEN Zero ELSE RMax(RAbs(v[k]), MaxAbs(v, k - 1))
ScaledBy(m, r) == IF r = Inexact THEN Inexact ELSE RMul(m, r)
ScaledNorm(v, k, m) ==
    IF m = Zero THEN Zero
    ELSE ScaledBy(m, RSqrt(SumSq([i \in 1..k |-> RDiv(v[i], m)], k)))
NormAxis0(data, j) ==
    ScaledNorm(Column(data, j), data.shape[1], MaxAbs(Column(data, j), data.shape[1]))

\* GroupLasso.__init__: line 222.
GroupLassoInit(weights) ==
    [NoProx EXCEPT !.cls = "GroupLasso", !.built = TRUE, !.weights = Some(Scalar(weights))]

\* GroupLasso.op: lines 241-248.  The value of lines 244-246 is dropped.
ShrinkNoFloor(w, ef, norm_2) == RMax(Zero, RSub(One, RDiv(RMul(w, ef), norm_2)))
Shrink(w, ef, norm_2) == RMax(Zero, RSub(One, RDiv(RMul(w, ef), RMax(norm_2, Eps32))))
GroupLassoOp(o, data, extra_factor) ==
    [exc |-> "none",
     ret |-> Some(Arr(data.shape,
                [i \in 1..Len(data.v) |->
                    RMul(data.v[i], Shrink(Val(o.weights)[1][1], extra_factor,
                                           NormAxis0(data, ColOf(data, i))))]))]

\* A sum of square roots: the coefficient of sqrt(r) for each square-free r
\* of Radicands (sqrt(1) carries the rational part).  The square root of
\* p/d is s/d * sqrt(r) with p * d = s * s * r.
Radicands == {1, 2, 3}
NoSurds == [r \in Radicands |-> Zero]
RECURSIVE SquarePart(_, _)
SquarePart(k, s) == IF s <= 1 THEN 1 ELSE IF k % (s * s) = 0 THEN s ELSE SquarePart(k, s - 1)
SurdOf(q, s) == [coef |-> Rat(s, q[2]), rad |-> (q[1] * q[2]) \div (s * s)]
SqrtSurd(q) == SurdOf(q, SquarePart(q[1] * q[2], ISqrt(q[1] * q[2])))
AddSurd(c, g) == [r \in Radicands |-> IF r = g.rad THEN RAdd(c[r], g.coef) ELSE c[r]]

\* GroupLasso.get_cost: line 263, np.sum(np.linalg.norm(data, axis=0)) over
\* the first j columns.
RECURSIVE NormSum(_, _)
NormSum(data, j) ==
    IF j = 0 THEN NoSurds
    ELSE AddSurd(NormSum(data, j - 1), SqrtSurd(SumSq(Column(data, j), data.shape[1])))
GroupLassoGetCostWeighted(o, data) ==
    [exc |-> "none",
     ret |-> Some([r \in Radicands |->
                RMul(Val(o.weights)[1][1], NormSum(data, NCols(data))[r])])]
GroupLassoGetCost(o, data) ==
    [exc |-> "none", ret |-> Some(NormSum(data, NCols(data)))]

\* modopt's SparseThreshold with thresh_type 'soft': the entries are
\* soft-thresholded by weights * extra_factor.
SoftThreshold(x, t) ==
    IF RLt(t, RAbs(x)) THEN (IF RLt(x, Zero) THEN RAdd(x, t) ELSE RSub(x, t)) ELSE Zero
SparseThresholdOp(weights, data, extra_factor) ==
    Arr(data.shape, [i \in 1..Len(data.v) |->
                        SoftThreshold(data.v[i], RMul(weights, extra_factor))])

\* SparseGroupLasso.__init__: lines 276-285.  self.weights is not set.
SparseGroupLassoInit(weights_l1, weights_l2) ==
    [NoProx EXCEPT !.cls = "SparseGroupLasso", !.built = TRUE,
                   !.prox_op_l1 = Some(weights_l1),
                   !.prox_op_l2 = Some(GroupLassoInit(weights_l2)),
                   !.weights_l1 = Some(weights_l1),
                   !.weights_l2 = Some(weights_l2)]

\* SparseGroupLasso.op: lines 306-308.
SparseGroupLassoOpGroupFirst(o, data, extra_factor) ==
    [exc |-> "none",
     ret |-> Some(SparseThresholdOp(Val(o.prox_op_l1),
                    Val(GroupLassoOp(Val(o.prox_op_l2), data, extra_factor).ret),
                    extra_factor))]
SparseGroupLassoOp(o, data, extra_factor) ==
    GroupLassoOp(Val(o.prox_op_l2),
                 SparseThresholdOp(Val(o.prox_op_l1), data, extra_factor),
                 extra_factor)

\* SparseGroupLasso.get_cost: line 323.  The left operand calls the cost of
\* modopt's SparseThreshold, whose linear operator is the class Identity
\* of line 276, not an instance: l1 is what that call does ("returns" or
\* the exception it raises).  The right operand reads self.prox_op_l2.cost,
\* and GroupLasso (lines 207-263) defines get_cost, not cost.
SparseGroupLassoGetCost(o, data, l1) ==
    [exc |-> IF l1 = "returns" THEN "AttributeError" ELSE l1, ret |-> None]

(***************************************************************************)
(* NuclearNorm (lines 30-204).  data has the channel axis first; a shape   *)
(* is a tuple of integers.                                                 *)
(***************************************************************************)
RECURSIVE Prod(_)
Prod(shape) == IF shape = <<>> THEN 1 ELSE Head(shape) * Prod(Tail(shape))
Last(sq) == sq[Len(sq)]
Front(sq) == SubSeq(sq, 1, Len(sq) - 1)
Failed(e) == [exc |-> e, ret |-> None]
Returned(x) == [exc |-> "none", ret |-> Some(x)]

\* np.moveaxis(a, 0, -1) and np.moveaxis(a, -1, 0).
MoveAxis0ToLast(a) ==
    Arr(Tail(a.shape) \o <<a.shape[1]>>,
        [p \in 1..Len(a.v) |->
            a.v[((p - 1) % a.shape[1]) * (Len(a.v) \div a.shape[1])
                + ((p - 1) \div a.shape[1]) + 1]])
MoveAxisLastTo0(a) ==
    Arr(<<Last(a.shape)>> \o Front(a.shape),
        [p \in 1..Len(a.v) |->
            a.v[((p - 1) % (Len(a.v) \div Last(a.shape))) * Last(a.shape)
                + ((p - 1) \div (Len(a.v) \div Last(a.shape))) + 1]])

\* np.linalg.svd of the R x K matrix with the entries v, for the matrices
\* whose singular values are rational: a matrix of rank at most one has the
\* one singular value sqrt(sum of squares), and a matrix with at most one
\* non-zero entry per row and per column has the magnitudes of its entries.
\* Any other matrix is marked Inexact; the inputs avoid them.
Entry(v, K, i, j) == v[(i - 1) * K + j]
RankOne(v, R, K) ==
    \A i \in 1..R, k \in 1..R, j \in 1..K, l \in 1..K :
        RMul(Entry(v, K, i, j), Entry(v, K, k, l)) = RMul(Entry(v, K, i, l), Entry(v, K, k, j))
DiagLike(v, R, K) ==
    /\ \A i \in 1..R : Cardinality({j \in 1..K : Entry(v, K, i, j) # Zero}) <= 1
    /\ \A j \in 1..K : Cardinality({i \in 1..R : Entry(v, K, i, j) # Zero}) <= 1
Frobenius(v) == RSqrt(SumSq(v, Len(v)))
RECURSIVE SumAbs(_, _)
SumAbs(v, k) == IF k = 0 THEN Zero ELSE RAdd(RAbs(v[k]), SumAbs(v, k - 1))
\* np.sum(np.abs(s)) of the singular values s.
SingularSum(v, R, K) ==
    IF RankOne(v, R, K) THEN Frobenius(v)
    ELSE IF DiagLike(v, R, K) THEN SumAbs(v, Len(v))
    ELSE Inexact
\* np.dot(u * f(s), vh) with f(s) = s * max(1 - t / max(eps, |s|), 0).
SvdShrink(v, R, K, t) ==
    IF RankOne(v, R, K)
    THEN [p \in 1..Len(v) |-> RMul(v[p], RMax(RSub(One, RDiv(t, RMax(Eps32, Frobenius(v)))), Zero))]
    ELSE IF DiagLike(v, R, K)
    THEN [p \in 1..Len(v) |-> RMul(v[p], RMax(RSub(One, RDiv(t, RMax(Eps32, RAbs(v[p])))), Zero))]
    ELSE [p \in 1..Len(v) |-> Inexact]

\* NuclearNorm.__init__: lines 47-56.
NuclearNormInit(weights, patch_shape, overlapping_factor) ==
    [NoProx EXCEPT !.cls = "NuclearNorm", !.built = TRUE,
                   !.weights = Some(Scalar(weights)),
                   !.patch_shape = Some(patch_shape),
                   !.overlapping_factor = Some(overlapping_factor)]

\* NuclearNorm._prox_nuclear_norm: lines 58-69.  np.reshape raises
\* ValueError when prod(patch_shape[:-1]) * patch.shape[-1] is not the
\* number of entries of patch.
MatrixFits(o, patch) ==
    Prod(Front(Val(o.patch_shape))) * Last(patch.shape) = Len(patch.v)
ProxNuclearNorm(o, patch, threshold) ==
    IF ~MatrixFits(o, patch) THEN Failed("ValueError")
    ELSE Returned(Arr(patch.shape,
            SvdShrink(patch.v, Prod(Front(Val(o.patch_shape))), Last(patch.shape), threshold)))

\* NuclearNorm._nuclear_norm_cost: lines 71-76.
NuclearNormCostOf(o, patch) ==
    IF ~MatrixFits(o, patch) THEN Failed("ValueError")
    ELSE Returned(SingularSum(patch.v, Prod(Front(Val(o.patch_shape))), Last(patch.shape)))

\* The patch utilities of parallel_mri_online/utils.py.  A grid is the
\* image size (H, W, C), the patch size (ph, pw), the stride (sh, sw) and
\* the number of patches along each axis (nh, nw).
Grid(H, W, C, ph, pw, sh, sw) ==
    [H |-> H, W |-> W, C |-> C, ph |-> ph, pw |-> pw, sh |-> sh, sw |-> sw,
     nh |-> (H - ph) \div sh + 1, nw |-> (W - pw) \div sw + 1]
OriginRow(g, idx) == ((idx - 1) \div g.nw) * g.sh
OriginCol(g, idx) == ((idx - 1) % g.nw) * g.sw
PatchAt(img, g, i, j) ==
    Arr(<<g.ph, g.pw, g.C>>,
        [p \in 1..(g.ph * g.pw * g.C) |->
            img.v[((i + ((p - 1) \div (g.pw * g.C))) * g.W
                   + (j + (((p - 1) \div g.C) % g.pw))) * g.C + ((p - 1) % g.C) + 1]])
\* extract_patches_2d(image, patch_shape, overlapping_factor): the patches
\* of patch_shape[:2] pixels at stride patch dimension / overlapping
\* factor, row by row.
ExtractFails(img, patch_shape, overlapping_factor) ==
    \/ patch_shape[1] \div overlapping_factor = 0
    \/ patch_shape[2] \div overlapping_factor = 0
    \/ patch_shape[1] > img.shape[1]
    \/ patch_shape[2] > img.shape[2]
ExtractGrid(img, patch_shape, overlapping_factor) ==
    Grid(img.shape[1], img.shape[2], img.shape[3], patch_shape[1], patch_shape[2],
         patch_shape[1] \div overlapping_factor, patch_shape[2] \div overlapping_factor)
PatchesOn(img, g) ==
    [idx \in 1..(g.nh * g.nw) |-> PatchAt(img, g, OriginRow(g, idx), OriginCol(g, idx))]
ExtractPatches2d(img, patch_shape, overlapping_factor) ==
    PatchesOn(img, ExtractGrid(img, patch_shape, overlapping_factor))

\* reconstruct_non_overlapped_patches_2d(patches, img_size): the inverse of
\* the disjoint extraction, an image with the channel axis last; a pixel
\* no patch covers is zero.
TiledEntry(P, g, r, c, ch) ==
    IF r < g.nh * g.ph /\ c < g.nw * g.pw
    THEN P[(r \div g.ph) * g.nw + (c \div g.pw) + 1].v[
            ((r % g.ph) * g.pw + (c % g.pw)) * g.C + ch + 1]
    ELSE Zero
ImageOf(g, f(_, _, _)) ==
    Arr(<<g.H, g.W, g.C>>,
        [p \in 1..(g.H * g.W * g.C) |->
            f((p - 1) \div (g.W * g.C), ((p - 1) \div g.C) % g.W, (p - 1) % g.C)])
TiledImage(P, g) == ImageOf(g, LAMBDA r, c, ch : TiledEntry(P, g, r, c, ch))
ReconstructNonOverlappedPatches2d(P, img_size) ==
    TiledImage(P, Grid(img_size[1], img_size[2], P[1].shape[3], P[1].shape[1],
                       P[1].shape[2], P[1].shape[1], P[1].shape[2]))

\* reconstruct_overlapped_patches_2d(img_size, patches,
\* extraction_step_size): every pixel is the mean of the patches over it.
Covers(g, idx, r, c) ==
    /\ OriginRow(g, idx) <= r /\ r < OriginRow(g, idx) + g.ph
    /\ OriginCol(g, idx) <= c /\ c < OriginCol(g, idx) + g.pw
RECURSIVE CoverSum(_, _, _, _, _, _)
CoverSum(P, g, n, r, c, ch) ==
    IF n = 0 THEN Zero
    ELSE IF Covers(g, n, r, c)
    THEN RAdd(P[n].v[((r - OriginRow(g, n)) * g.pw + (c - OriginCol(g, n))) * g.C + ch + 1],
              CoverSum(P, g, n - 1, r, c, ch))
    ELSE CoverSum(P, g, n - 1, r, c, ch)
MeanEntry(P, g, r, c, ch) ==
    IF \E idx \in 1..Len(P) : Covers(g, idx, r, c)
    THEN RDiv(CoverSum(P, g, Len(P), r, c, ch),
              RInt(Cardinality({idx \in 1..Len(P) : Covers(g, idx, r, c)})))
    ELSE Zero
MeanImage(P, g) == ImageOf(g, LAMBDA r, c, ch : MeanEntry(P, g, r, c, ch))
ReconstructOverlappedPatches2d(img_size, P, extraction_step_size) ==
    MeanImage(P, Grid(img_size[1], img_size[2], img_size[3], P[1].shape[1],
                      P[1].shape[2], extraction_step_size[1], extraction_step_size[2]))

\* The loop of lines 112-117 (and the joblib call of lines 119-122, whose
\* list holds the results in the order of the patches): every patch is
\* replaced by its shrinkage; the first exception ends the call.
ProxEach(o, P, threshold) == [idx \in 1..Len(P) |-> ProxNuclearNorm(o, P[idx], threshold)]
AnyRaised(rs) == \E idx \in 1..Len(rs) : rs[idx].exc # "none"
FirstRaised(rs) ==
    rs[CHOOSE idx \in 1..Len(rs) :
            rs[idx].exc # "none" /\ \A k \in 1..(idx - 1) : rs[k].exc = "none"].exc
ValuesOf(rs) == [idx \in 1..Len(rs) |-> Val(rs[idx].ret)]

\* NuclearNorm.op, lines 98-104: data is one patch.
OnePatchOp(o, data, r) ==
    IF r.exc # "none" THEN r ELSE Returned(MoveAxisLastTo0(Val(r.ret)))
\* lines 105-125: disjoint patches; the stitched image is returned as the
\* utility built it.
DisjointStitch(data, rs) ==
    IF AnyRaised(rs) THEN Failed(FirstRaised(rs))
    ELSE Returned(ReconstructNonOverlappedPatches2d(ValuesOf(rs), Tail(data.shape)))
\* lines 126-149: overlapping patches; the stitched image gets its channel
\* axis moved back to the front.
ExtractionStepSize(o) ==
    [d \in 1..Len(Val(o.patch_shape)) |->
        Val(o.patch_shape)[d] \div Val(o.overlapping_factor)]
OverlapStitch(o, data, rs) ==
    IF AnyRaised(rs) THEN Failed(FirstRaised(rs))
    ELSE Returned(MoveAxisLastTo0(
            ReconstructOverlappedPatches2d(MoveAxis0ToLast(data).shape, ValuesOf(rs),
                                           ExtractionStepSize(o))))
Threshold(o, extra_factor) == RMul(Val(o.weights)[1][1], extra_factor)
NuclearNormOp(o, data, extra_factor, num_cores) ==
    IF Tail(data.shape) = Val(o.patch_shape)
    THEN OnePatchOp(o, data,
            ProxNuclearNorm(o, Arr(<<Prod(Val(o.patch_shape)), data.shape[1]>>,
                                   MoveAxis0ToLast(data).v),
                            Threshold(o, extra_factor)))
    ELSE IF ExtractFails(MoveAxis0ToLast(data), Val(o.patch_shape), Val(o.overlapping_factor))
    THEN Failed("ValueError")
    ELSE IF Val(o.overlapping_factor) = 1
    THEN DisjointStitch(data,
            ProxEach(o, ExtractPatches2d(MoveAxis0ToLast(data), Val(o.patch_shape), 1),
                     Threshold(o, extra_factor)))
    ELSE OverlapStitch(o, data,
            ProxEach(o, ExtractPatches2d(MoveAxis0ToLast(data), Val(o.patch_shape),
                                         Val(o.overlapping_factor)),
                     Threshold(o, extra_factor)))

\* NuclearNorm.get_cost: lines 165-204.  With num_cores other than 1 the
\* disjoint branch reads self._cost_nuclear_norm (line 185), which no class
\* defines, and the overlapping branch adds the list joblib returns to the
\* integer cost (line 200).
CostEach(o, P) == [idx \in 1..Len(P) |-> NuclearNormCostOf(o, P[idx])]
RECURSIVE CostSum(_, _)
CostSum(rs, k) == IF k = 0 THEN Zero ELSE RAdd(Val(rs[k].ret), CostSum(rs, k - 1))
ScaledCost(rs, threshold) ==
    IF AnyRaised(rs) THEN Failed(FirstRaised(rs))
    ELSE Returned(RMul(CostSum(rs, Len(rs)), threshold))
ListAdded(rs) == IF AnyRaised(rs) THEN Failed(FirstRaised(rs)) ELSE Failed("TypeError")
NuclearNormGetCost(o, data, extra_factor, num_cores) ==
    IF Tail(data.shape) = Val(o.patch_shape)
    THEN ScaledCost(<<NuclearNormCostOf(o, Arr(<<Prod(Val(o.patch_shape)), data.shape[1]>>,
                                              MoveAxis0ToLast(data).v))>>,
                    Threshold(o, extra_factor))
    ELSE IF ExtractFails(MoveAxis0ToLast(data), Val(o.patch_shape), Val(o.overlapping_factor))
    THEN Failed("ValueError")
    ELSE IF num_cores = 1
    THEN ScaledCost(CostEach(o, ExtractPatches2d(MoveAxis0ToLast(data), Val(o.patch_shape),
                                                 Val(o.overlapping_factor))),
                    Threshold(o, extra_factor))
    ELSE IF Val(o.overlapping_factor) = 1
    THEN Failed("AttributeError")
    ELSE ListAdded(CostEach(o, ExtractPatches2d(MoveAxis0ToLast(data), Val(o.patch_shape),
                                                Val(o.overlapping_factor))))

(***************************************************************************)
(* MultiLevelNuclearNorm (lines 425-542).  An argument that may be a list  *)
(* or a single value is the flag list and the values v (one value when it  *)
(* is not a list).  A linear operator is the manifest of its bands: the    *)
(* (height, width) of each band's coefficients.                            *)
(***************************************************************************)
ListArg(sq) == [list |-> TRUE, v |-> sq]
SingleArg(x) == [list |-> FALSE, v |-> <<x>>]
Repeat(x, n) == [i \in 1..n |-> x]
\* x[0] of an integer tuple x is an integer, kept as the tuple <<x[0]>> (no
\* patch shape of the inputs has one dimension).
FirstDim(shape) == <<shape[1]>>

\* lines 449-470: the per-scale lists, or the exception that ends __init__.
PerScale(o, weights, patch_shape, linear_op) ==
    IF weights.list /\ patch_shape.list
    THEN IF Len(weights.v) # Len(patch_shape.v)
         THEN [o |-> o, exc |-> "ValueError"]
         ELSE [o |-> [o EXCEPT !._weights = Some(weights.v),
                               !._patch_shape = Some(patch_shape.v)],
               exc |-> "none"]
    ELSE IF weights.list
    THEN [o |-> [o EXCEPT !._weights = Some(weights.v),
                          !._patch_shape = Some(Repeat(patch_shape.v[1], Len(weights.v)))],
          exc |-> "none"]
    ELSE IF patch_shape.list
    THEN [o |-> [o EXCEPT !._patch_shape = Some(patch_shape.v),
                          !._weights = Some(Repeat(weights.v[1], Len(patch_shape.v)))],
          exc |-> "none"]
    ELSE IF linear_op = None
    THEN [o |-> o, exc |-> "AttributeError"]
    ELSE [o |-> [o EXCEPT !._patch_shape = Some(Repeat(patch_shape.v[1], Len(Val(linear_op)))),
                          !._weights = Some(Repeat(weights.v[1], Len(Val(linear_op))))],
          exc |-> "none"]
\* lines 473-474: NuclearNorm.__init__(self, weights[0], patch_shape[0], ...)
\* subscripts the arguments themselves: a number has no [0].
BaseInit(o, weights, patch_shape, overlapping_factor) ==
    IF ~weights.list THEN [o |-> o, exc |-> "TypeError"]
    ELSE IF weights.v = <<>> \/ (patch_shape.list /\ patch_shape.v = <<>>)
    THEN [o |-> o, exc |-> "IndexError"]
    ELSE [o |-> [o EXCEPT !.built = TRUE,
                          !.weights = Some(Scalar(weights.v[1])),
                          !.patch_shape = Some(IF patch_shape.list THEN patch_shape.v[1]
                                               ELSE FirstDim(patch_shape.v[1])),
                          !.overlapping_factor = Some(overlapping_factor)],
          exc |-> "none"]
InitAfter(r, weights, patch_shape, linear_op, overlapping_factor) ==
    IF r.exc # "none" THEN r
    ELSE BaseInit([r.o EXCEPT !.linear_op = linear_op], weights, patch_shape,
                  overlapping_factor)
\* MultiLevelNuclearNorm.__init__: lines 443-474.
MultiLevelNuclearNormInit(weights, patch_shape, linear_op, overlapping_factor) ==
    InitAfter(PerScale([NoProx EXCEPT !.cls = "MultiLevelNuclearNorm"],
                       weights, patch_shape, linear_op),
              weights, patch_shape, linear_op, overlapping_factor)

\* linear_op.reshape_coeff_channel: the coefficients (channels, N) cut into
\* one array (channels, height, width) per band of the manifest.
RECURSIVE BandOffset(_, _)
BandOffset(bands, k) ==
    IF k = 1 THEN 0 ELSE BandOffset(bands, k - 1) + Prod(bands[k - 1])
BandArray(coeffs, bands, k) ==
    Arr(<<coeffs.shape[1]>> \o bands[k],
        [p \in 1..(coeffs.shape[1] * Prod(bands[k])) |->
            coeffs.v[((p - 1) \div Prod(bands[k])) * coeffs.shape[2]
                     + BandOffset(bands, k) + ((p - 1) % Prod(bands[k])) + 1]])
ReshapeCoeffChannel(coeffs, bands) == [k \in 1..Len(bands) |-> BandArray(coeffs, bands, k)]
\* linear_op.reshape_channel_coeff and flatten: the arrays of the bands,
\* read with the channel axis first, put back side by side in one array
\* (channels, N).
BandOfColumn(bands, n, j) ==
    CHOOSE k \in 1..n : BandOffset(bands, k) < j /\ j <= BandOffset(bands, k) + Prod(bands[k])
ReshapeChannelCoeff(rets, bands, channels) ==
    Arr(<<channels, BandOffset(bands, Len(rets) + 1)>>,
        [p \in 1..(channels * BandOffset(bands, Len(rets) + 1)) |->
            rets[BandOfColumn(bands, Len(rets), ((p - 1) % BandOffset(bands, Len(rets) + 1)) + 1)].v[
                ((p - 1) \div BandOffset(bands, Len(rets) + 1))
                    * Prod(bands[BandOfColumn(bands, Len(rets),
                                 ((p - 1) % BandOffset(bands, Len(rets) + 1)) + 1)])
                + (((p - 1) % BandOffset(bands, Len(rets) + 1)) + 1)
                - BandOffset(bands, BandOfColumn(bands, Len(rets),
                                 ((p - 1) % BandOffset(bands, Len(rets) + 1)) + 1))]])

AtScaleFirst(o, k) ==
    [o EXCEPT !.weights = Some(Scalar(Val(o._weights)[1])),
              !.patch_shape = Some(Val(o._patch_shape)[1])]
\* lines 504-505 and 537-538: the loop assigns the scale's weight and patch
\* shape to the operator itself.
AtScale(o, k) ==
    [o EXCEPT !.weights = Some(Scalar(Val(o._weights)[k])),
              !.patch_shape = Some(Val(o._patch_shape)[k])]
Min3(a, b, c) == IF a <= b /\ a <= c THEN a ELSE IF b <= c THEN b ELSE c
Scales(o, coeffs) == Min3(Len(coeffs), Len(Val(o._weights)), Len(Val(o._patch_shape)))

\* MultiLevelNuclearNorm.op: lines 476-515.  The result is the operator as
\* the call leaves it, the exception and the value.
RECURSIVE MultiLevelOpLoop(_, _, _, _, _, _)
MultiLevelOpBand(o, coeffs, k, extra_factor, num_cores, acc, r) ==
    IF r.exc # "none" THEN [o |-> o, exc |-> r.exc, rets |-> acc]
    ELSE MultiLevelOpLoop(o, coeffs, k + 1, extra_factor, num_cores, Append(acc, Val(r.ret)))
MultiLevelOpLoop(o, coeffs, k, extra_factor, num_cores, acc) ==
    IF k > Scales(o, coeffs) THEN [o |-> o, exc |-> "none", rets |-> acc]
    ELSE MultiLevelOpBand(AtScale(o, k), coeffs, k, extra_factor, num_cores, acc,
                          NuclearNormOp(AtScale(o, k), coeffs[k], extra_factor, num_cores))
MultiLevelOpEnd(l, bands, channels) ==
    IF l.exc # "none" THEN [o |-> l.o, exc |-> l.exc, ret |-> None]
    ELSE [o |-> l.o, exc |-> "none", ret |-> Some(ReshapeChannelCoeff(l.rets, bands, channels))]
MultiLevelNuclearNormOp(o, wavelet_coeffs, extra_factor, num_cores) ==
    IF o.linear_op = None THEN [o |-> o, exc |-> "AttributeError", ret |-> None]
    ELSE MultiLevelOpEnd(
            MultiLevelOpLoop(o, ReshapeCoeffChannel(wavelet_coeffs, Val(o.linear_op)), 1,
                             extra_factor, num_cores, <<>>),
            Val(o.linear_op), wavelet_coeffs.shape[1])

\* MultiLevelNuclearNorm.get_cost: lines 517-542.
RECURSIVE MultiLevelCostLoop(_, _, _, _, _, _)
MultiLevelCostBand(o, coeffs, k, extra_factor, num_cores, cost, r) ==
    IF r.exc # "none" THEN [o |-> o, exc |-> r.exc, ret |-> None]
    ELSE MultiLevelCostLoop(o, coeffs, k + 1, extra_factor, num_cores,
                            RAdd(cost, Val(r.ret)))
MultiLevelCostLoop(o, coeffs, k, extra_factor, num_cores, cost) ==
    IF k > Scales(o, coeffs) THEN [o |-> o, exc |-> "none", ret |-> Some(cost)]
    ELSE MultiLevelCostBand(AtScale(o, k), coeffs, k, extra_factor, num_cores, cost,
                            NuclearNormGetCost(AtScale(o, k), coeffs[k], extra_factor,
                                               num_cores))
MultiLevelNuclearNormGetCost(o, wavelet_coeffs, extra_factor, num_cores) ==
    IF o.linear_op = None THEN [o |-> o, exc |-> "AttributeError", ret |-> None]
    ELSE MultiLevelCostLoop(o, ReshapeCoeffChannel(wavelet_coeffs, Val(o.linear_op)), 1,
                            extra_factor, num_cores, Zero)

\* _oscar_weights of parallel_mri_online/utils.py: alpha + beta * (size-1 .. 0).
OscarWeights(alpha, beta, size) ==
    [i \in 1..size |-> RAdd(alpha, RMul(beta, RInt(size - i)))]
RECURSIVE BandWeights(_, _, _, _)
BandWeights(alpha, beta, bands, n_channel) ==
    IF bands = <<>> THEN <<>>
    ELSE <<OscarWeights(alpha, beta, n_channel * Head(bands))>>
            \o BandWeights(alpha, beta, Tail(bands), n_channel)

\* OWL.__init__: lines 342-362.  beta and data_shape are optional; raise of
\* a string (lines 348, 362) is a TypeError.  data_shape is the number of
\* coefficients of a channel, or in 'band_based' mode the list of band sizes.
OWLPlain(alpha, mode) ==
    [NoProx EXCEPT !.cls = "OWL", !.built = TRUE, !.weights = Some(Scalar(alpha)),
                   !.mode = Some(mode)]
OWLInit(alpha, beta, data_shape, mode, n_channel) ==
    IF ~IsSet(beta) THEN [o |-> OWLPlain(alpha, mode), exc |-> "none"]
    ELSE IF ~IsSet(data_shape)
    THEN [o |-> [OWLPlain(alpha, mode) EXCEPT !.built = FALSE], exc |-> "TypeError"]
    ELSE IF mode = "all"
    THEN [o |-> [OWLPlain(alpha, mode) EXCEPT
                    !.weights = Some(<<OscarWeights(alpha, Val(beta),
                                                    Val(data_shape)[1] * n_channel)>>)],
          exc |-> "none"]
    ELSE IF mode = "band_based"
    THEN [o |-> [OWLPlain(alpha, mode) EXCEPT
                    !.band_shape = data_shape,
                    !.weights = Some(BandWeights(alpha, Val(beta), Val(data_shape),
                                                 n_channel))],
          exc |-> "none"]
    ELSE IF mode = "coeff_based"
    THEN [o |-> [OWLPlain(alpha, mode) EXCEPT
                    !.weights = Some(<<OscarWeights(alpha, Val(beta), n_channel)>>)],
          exc |-> "none"]
    ELSE [o |-> [OWLPlain(alpha, mode) EXCEPT !.built = FALSE], exc |-> "TypeError"]

\* sklearn.isotonic.isotonic_regression(ys, y_min=0, increasing=False): the
\* non-increasing sequence nearest to ys, by pooling adjacent violators
\* into blocks of equal value, then clipped below at 0.
Mean(b) == RDiv(b.s, RInt(b.n))
Merge(a, b) == [s |-> RAdd(a.s, b.s), n |-> a.n + b.n]
RECURSIVE Pool(_)
Pool(bs) ==
    IF Len(bs) >= 2 /\ RLt(Mean(bs[Len(bs) - 1]), Mean(bs[Len(bs)]))
    THEN Pool(Append(SubSeq(bs, 1, Len(bs) - 2), Merge(bs[Len(bs) - 1], bs[Len(bs)])))
    ELSE bs
RECURSIVE Pava(_, _, _)
Pava(ys, k, bs) ==
    IF k > Len(ys) THEN bs ELSE Pava(ys, k + 1, Pool(Append(bs, [s |-> ys[k], n |-> 1])))
RECURSIVE Expand(_)
Expand(bs) ==
    IF bs = <<>> THEN <<>>
    ELSE [i \in 1..Head(bs).n |-> Mean(Head(bs))] \o Expand(Tail(bs))
ClipAtZero(ys) == [i \in 1..Len(ys) |-> RMax(Zero, ys[i])]
IsotonicRegression(ys) == ClipAtZero(Expand(Pava(ys, 1, <<>>)))

\* numpy.argsort(data_abs)[::-1], line 366: Rank is the place of entry i in
\* the descending order (of equal entries the later one comes first), and
\* IndexAt its inverse.
Rank(data, i) ==
    1 + Cardinality({j \in 1..Len(data) :
            \/ RLt(RAbs(data[i]), RAbs(data[j]))
            \/ RAbs(data[j]) = RAbs(data[i]) /\ j > i})
IndexAt(data, r) == CHOOSE i \in 1..Len(data) : Rank(data, i) = r

\* OWL._prox_owl: lines 365-379.  data is a vector; threshold a vector of
\* the same length or of one entry (numpy broadcasts it), anything else is
\* a ValueError at line 370.
Broadcasts(data, threshold) == Len(threshold) = 1 \/ Len(threshold) = Len(data)
ThresholdAt(threshold, r) == IF Len(threshold) = 1 THEN threshold[1] ELSE threshold[r]
SortedMinusThreshold(data, threshold) ==
    [r \in 1..Len(data) |-> RSub(RAbs(data[IndexAt(data, r)]), ThresholdAt(threshold, r))]
SignData(x) == RDiv(x, RAbs(x))
ProxOwl(data, threshold) ==
    [i \in 1..Len(data) |->
        RMul(SignData(data[i]),
             IsotonicRegression(SortedMinusThreshold(data, threshold))[Rank(data, i)])]

\* A call of _prox_owl with vectors: the subtraction of line 370 raises
\* ValueError when threshold does not broadcast against data.
ProxOwlCall(data, threshold) ==
    IF ~Broadcasts(data, threshold) THEN [exc |-> "ValueError", ret |-> None]
    ELSE [exc |-> "none", ret |-> Some(Arr(<<Len(data)>>, ProxOwl(data, threshold)))]

\* weights * extra_factor
Scaled(weights, extra_factor) == [i \in 1..Len(weights) |-> RMul(weights[i], extra_factor)]

\* OWL.op, mode 'all': lines 386-387.  The output is the flattened vector.
OWLOpAll(o, data, extra_factor) ==
    IF ~Broadcasts(data.v, Val(o.weights)[1])
    THEN [exc |-> "ValueError", ret |-> None]
    ELSE [exc |-> "none",
          ret |-> Some(Arr(<<Len(data.v)>>,
                           ProxOwl(data.v, Scaled(Val(o.weights)[1], extra_factor))))]

\* OWL.op, mode 'coeff_based': lines 402-406, one pass per column.
OWLOpCoeff(o, data, extra_factor) ==
    IF Len(data.shape) < 2 THEN [exc |-> "IndexError", ret |-> None]
    ELSE IF ~Broadcasts(Column(data, 1), Val(o.weights)[1])
    THEN [exc |-> "ValueError", ret |-> None]
    ELSE [exc |-> "none",
          ret |-> Some(Arr(data.shape,
                [i \in 1..Len(data.v) |->
                    ProxOwl(Column(data, ColOf(data, i)),
                            Scaled(Val(o.weights)[1], extra_factor))
                        [((i - 1) \div NCols(data)) + 1]]))]

\* OWL.op, mode 'band_based': lines 389-400.  Band b holds the columns
\* BandStart(b)+1 .. BandStart(b)+bands[b] of every channel; a band that
\* reaches past the last column cannot be reshaped (ValueError), and a
\* column no band holds stays zero.
RECURSIVE BandStart(_, _)
BandStart(bands, b) == IF b = 1 THEN 0 ELSE BandStart(bands, b - 1) + bands[b - 1]
InBand(bands, b, j) == BandStart(bands, b) < j /\ j <= BandStart(bands, b) + bands[b]
Block(data, start, n) ==
    [k \in 1..(data.shape[1] * n) |->
        data.v[((k - 1) \div n) * NCols(data) + start + ((k - 1) % n) + 1]]
BandFits(o, data, b) ==
    /\ BandStart(Val(o.band_shape), b) + Val(o.band_shape)[b] <= NCols(data)
    /\ Broadcasts(Block(data, BandStart(Val(o.band_shape), b), Val(o.band_shape)[b]),
                  Val(o.weights)[b])
BandEntry(o, data, extra_factor, b, ch, j) ==
    ProxOwl(Block(data, BandStart(Val(o.band_shape), b), Val(o.band_shape)[b]),
            Scaled(Val(o.weights)[b], extra_factor))
        [(ch - 1) * Val(o.band_shape)[b] + (j - BandStart(Val(o.band_shape), b))]
BandsOf(o, j) == {b \in 1..Len(Val(o.band_shape)) : InBand(Val(o.band_shape), b, j)}
OWLOpBand(o, data, extra_factor) ==
    IF ~IsSet(o.band_shape) THEN [exc |-> "AttributeError", ret |-> None]
    ELSE IF Len(data.shape) < 2 THEN [exc |-> "IndexError", ret |-> None]
    ELSE IF \E b \in 1..Len(Val(o.band_shape)) : ~BandFits(o, data, b)
    THEN [exc |-> "ValueError", ret |-> None]
    ELSE [exc |-> "none",
          ret |-> Some(Arr(data.shape,
                [i \in 1..Len(data.v) |->
                    IF BandsOf(o, ColOf(data, i)) = {} THEN Zero
                    ELSE BandEntry(o, data, extra_factor,
                                   CHOOSE b \in BandsOf(o, ColOf(data, i)) : TRUE,
                                   ((i - 1) \div NCols(data)) + 1, ColOf(data, i))]))]

\* OWL.op: lines 385-407.  With any other mode no branch binds output and
\* line 407 raises UnboundLocalError.
OWLOp(o, data, extra_factor) ==
    IF Val(o.mode) = "all" THEN OWLOpAll(o, data, extra_factor)
    ELSE IF Val(o.mode) = "band_based" THEN OWLOpBand(o, data, extra_factor)
    ELSE IF Val(o.mode) = "coeff_based" THEN OWLOpCoeff(o, data, extra_factor)
    ELSE [exc |-> "UnboundLocalError", ret |-> None]

\* OWL.get_cost: lines 422-423.  One UserWarning, then the value 0; data
\* and the fields of the operator are not read.
OWLGetCostNotImplemented(o, data) ==
    [exc |-> "NotImplementedError", ret |-> None, warnings |-> 0]
OWLGetCost(o, data) ==
    [exc |-> "none", ret |-> Some(Zero), warnings |-> 1]

\* k_support_norm.__init__: lines 559-560.  It sets weights and k; the
\* attribute lmbda, which _find_alpha and op read, is set nowhere.
KSupportNormInit(k, lmbda) ==
    [NoProx EXCEPT !.cls = "k_support_norm", !.built = TRUE,
                   !.weights = Some(Scalar(lmbda)), !.k = Some(RInt(k))]

\* k_support_norm._find_alpha: lines 563-599.  The first pass of the loop
\* reads data_sorted[q] and data_sorted[q+1] with q = 0 (IndexError for
\* fewer than two entries along the leading axis) and then self.lmbda at
\* line 579 (AttributeError): no call gets past it.
FindAlpha(o, w) ==
    IF w.shape[1] < 2 THEN [exc |-> "IndexError"] ELSE [exc |-> "AttributeError"]

\* k_support_norm.op: lines 612-615; extra_factor is not used.
KSupportNormOp(o, data, extra_factor) ==
    [exc |-> FindAlpha(o, data).exc, ret |-> None]

\* The inputs of the proximity operators.
ProxColumns == {<<Zero, Zero>>, <<RInt(3), RInt(4)>>, <<Zero, RInt(-4)>>}
ProxDatas ==
    {Arr(<<2, 2>>, <<a[1], b[1], a[2], b[2]>>) : a \in ProxColumns, b \in ProxColumns}
    \cup {Arr(<<2>>, <<RInt(3), RInt(-4)>>), Arr(<<2>>, <<Zero, RInt(2)>>),
          Arr(<<1>>, <<RInt(5)>>)}
ExtraFactors == {Zero, One, <<1, 2>>}
GroupLassoWeights == {One, RInt(6), <<1, 33554432>>}
\* Arrays with a group whose norm is below float32's eps.
TinyDatas == {Arr(<<2, 2>>, <<(<<1, 16777216>>), (<<1, 67108864>>), Zero, Zero>>)}
GroupLassoDatas == ProxDatas \cup TinyDatas
\* The 3x4 array of ones and an array with groups of norm sqrt(2) and 1.
Ones34 == Arr(<<3, 4>>, [i \in 1..12 |-> One])
\* The inputs of NuclearNorm: arrays (channels, height, width) whose
\* patches have rational singular values.
MaxCores == 2
NumCores == 1..MaxCores
NuclearWeights == {One, RInt(6)}
PatchShapes == {<<2, 1>>, <<2, 2>>, <<1, 1>>, <<2, 2, 1>>, <<1, 1, 2>>, <<2, 2, 2>>}
OverlappingFactors == {1, 2}
Ints(sq) == [i \in 1..Len(sq) |-> RInt(sq[i])]
NuclearDatas ==
    {Arr(<<2, 2, 1>>, Ints(<<3, 0, 4, 0>>)),
     Arr(<<2, 2, 1>>, Ints(<<3, 0, 0, 4>>)),
     Arr(<<2, 2, 1>>, Ints(<<0, 0, 0, 0>>)),
     Arr(<<2, 1, 2>>, Ints(<<3, 0, 4, 0>>)),
     Arr(<<2, 2, 2>>, Ints(<<9, 12, 0, 0, 12, 16, 0, 0>>)),
     Arr(<<1, 2, 3>>, Ints(<<3, 4, 0, 0, 0, 0>>))}
\* The inputs of MultiLevelNuclearNorm: a manifest of two bands, of 1x1 and
\* of 2x1 coefficients, and coefficients (2 channels, 3).
WeightsArgs == {ListArg(<<One, RInt(6)>>), ListArg(<<RInt(6)>>), SingleArg(One)}
PatchShapeArgs == {ListArg(<<(<<1, 1>>), (<<2, 1>>)>>), ListArg(<<(<<1, 1>>)>>),
                   SingleArg(<<1, 1>>)}
LinearOps == {None, Some(<<(<<1, 1>>), (<<2, 1>>)>>)}
WaveletCoeffs == {Arr(<<2, 3>>, Ints(<<3, 0, 0, 4, 0, 0>>)),
                  Arr(<<2, 3>>, Ints(<<3, 3, 0, 4, 4, 0>>))}
SparseWeightsL1 == {One, RInt(17)}
SparseWeightsL2 == {One}
SparseDatas == ProxDatas \cup {Arr(<<2, 2>>, <<RInt(20), Zero, RInt(21), Zero>>)}
\* The soft-thresholded groups of the call have a rational norm.
SoftNormsExact(o, data, extra_factor) ==
    \A j \in 1..NCols(data) :
        NormAxis0(SparseThresholdOp(Val(o.prox_op_l1), data, extra_factor), j) # Inexact
L1CostOutcomes == {"returns", "TypeError"}
CostDatas == ProxDatas \cup {Ones34, Arr(<<2, 2>>, <<One, One, One, Zero>>)}
\* Vectors and thresholds handed to _prox_owl: with and without zero
\* entries, with ties, and thresholds that make the isotonic regression pool.
ProxOwlVectors ==
    {Ints(<<3, -4>>), Ints(<<0, 2>>), Ints(<<4, -4>>), Ints(<<-1, 5, 3>>), Ints(<<0, 0, -2>>)}
ProxOwlThresholds ==
    {Ints(<<0, 0>>), Ints(<<2, 1>>), Ints(<<4, 1>>), Ints(<<6, 6>>), Ints(<<1>>),
     Ints(<<3, 2, 1>>), Ints(<<4, 4, 0>>)}
OWLModes == {"all", "band_based", "coeff_based", "other"}
OWLBetas == {None, Some(One)}
OWLDataShapes == {None, Some(<<2>>), Some(<<1, 1>>)}
OWLChannels == {1, 2}
KSupportKs == {1, 2}

NewGroupLasso ==
    /\ Idle
    /\ \E weights \in GroupLassoWeights :
            prox' = GroupLassoInit(weights)
    /\ plast' = [NoPCall EXCEPT !.op = "GroupLasso.__init__"]
    /\ UNCHANGED NotProx

NewSparseGroupLasso ==
    /\ Idle
    /\ \E weights_l1 \in SparseWeightsL1, weights_l2 \in SparseWeightsL2 :
            prox' = SparseGroupLassoInit(weights_l1, weights_l2)
    /\ plast' = [NoPCall EXCEPT !.op = "SparseGroupLasso.__init__"]
    /\ UNCHANGED NotProx

NewOWL ==
    /\ Idle
    /\ \E beta \in OWLBetas, data_shape \in OWLDataShapes, mode \in OWLModes,
          n_channel \in OWLChannels :
            \E r \in {OWLInit(One, beta, data_shape, mode, n_channel)} :
                /\ prox' = r.o
                /\ plast' = [NoPCall EXCEPT !.op = "OWL.__init__", !.exc = r.exc]
    /\ UNCHANGED NotProx

NewKSupportNorm ==
    /\ Idle
    /\ \E k \in KSupportKs :
            prox' = KSupportNormInit(k, One)
    /\ plast' = [NoPCall EXCEPT !.op = "k_support_norm.__init__"]
    /\ UNCHANGED NotProx

PCallOf(name, data, extra_factor, r) ==
    [NoPCall EXCEPT !.op = name, !.data = Some(data),
                    !.extra_factor = Some(extra_factor),
                    !.ret = r.ret, !.exc = r.exc]

CallGroupLassoOp ==
    /\ Idle
    /\ prox.built /\ prox.cls = "GroupLasso"
    /\ \E data \in GroupLassoDatas, extra_factor \in ExtraFactors :
            plast' = PCallOf("GroupLasso.op", data, extra_factor,
                             GroupLassoOp(prox, data, extra_factor))
    /\ UNCHANGED <<prox, NotProx>>

CallGroupLassoGetCost ==
    /\ Idle
    /\ prox.built /\ prox.cls = "GroupLasso"
    /\ \E data \in CostDatas :
            \E r \in {GroupLassoGetCost(prox, data)} :
                plast' = [NoPCall EXCEPT !.op = "GroupLasso.get_cost", !.data = Some(data),
                                         !.ret = r.ret, !.exc = r.exc]
    /\ UNCHANGED <<prox, NotProx>>

CallSparseGroupLassoOp ==
    /\ Idle
    /\ prox.built /\ prox.cls = "SparseGroupLasso"
    /\ \E data \in SparseDatas, extra_factor \in ExtraFactors :
            /\ SoftNormsExact(prox, data, extra_factor)
            /\ plast' = PCallOf("SparseGroupLasso.op", data, extra_factor,
                                SparseGroupLassoOp(prox, data, extra_factor))
    /\ UNCHANGED <<prox, NotProx>>

CallSparseGroupLassoGetCost ==
    /\ Idle
    /\ prox.built /\ prox.cls = "SparseGroupLasso"
    /\ \E data \in SparseDatas, l1 \in L1CostOutcomes :
            \E r \in {SparseGroupLassoGetCost(prox, data, l1)} :
                plast' = [NoPCall EXCEPT !.op = "SparseGroupLasso.get_cost", !.data = Some(data),
                                         !.ret = r.ret, !.exc = r.exc]
    /\ UNCHANGED <<prox, NotProx>>

NewNuclearNorm ==
    /\ Idle
    /\ \E weights \in NuclearWeights, patch_shape \in PatchShapes,
          overlapping_factor \in OverlappingFactors :
            prox' = NuclearNormInit(weights, patch_shape, overlapping_factor)
    /\ plast' = [NoPCall EXCEPT !.op = "NuclearNorm.__init__"]
    /\ UNCHANGED NotProx

\* The call hands its patches to joblib (lines 118-122 and 141-145).
UsesJoblib(o, data, num_cores) ==
    /\ num_cores # 1
    /\ Tail(data.shape) # Val(o.patch_shape)
    /\ ~ExtractFails(MoveAxis0ToLast(data), Val(o.patch_shape), Val(o.overlapping_factor))

\* NuclearNorm.op where the patches are processed by the caller.
CallNuclearNormOp ==
    /\ Idle
    /\ prox.built /\ prox.cls = "NuclearNorm"
    /\ \E data \in NuclearDatas, extra_factor \in ExtraFactors, num_cores \in NumCores :
            /\ ~UsesJoblib(prox, data, num_cores)
            /\ plast' = [PCallOf("NuclearNorm.op", data, extra_factor,
                                 NuclearNormOp(prox, data, extra_factor, num_cores))
                            EXCEPT !.num_cores = Some(num_cores)]
    /\ UNCHANGED <<prox, NotProx>>

\* NuclearNorm.op with num_cores other than 1: the patches are extracted
\* and handed to joblib's pool of num_cores workers.
StartNuclearNormOp ==
    /\ Idle
    /\ prox.built /\ prox.cls = "NuclearNorm"
    /\ \E data \in NuclearDatas, extra_factor \in ExtraFactors, num_cores \in NumCores :
            /\ UsesJoblib(prox, data, num_cores)
            /\ \E P \in {ExtractPatches2d(MoveAxis0ToLast(data), Val(prox.patch_shape),
                                          Val(prox.overlapping_factor))} :
                    plast' = [NoPCall EXCEPT !.op = "NuclearNorm.op",
                                             !.data = Some(data),
                                             !.extra_factor = Some(extra_factor),
                                             !.num_cores = Some(num_cores),
                                             !.running = TRUE,
                                             !.P = P,
                                             !.results = [idx \in 1..Len(P) |-> Pending]]
    /\ UNCHANGED <<prox, NotProx>>

\* A free worker takes any patch that no worker has taken.
WorkerTakesPatch ==
    /\ plast.running
    /\ Cardinality(plast.taken) < Val(plast.num_cores)
    /\ \E idx \in 1..Len(plast.P) :
            /\ idx \notin plast.taken
            /\ plast.results[idx] = Pending
            /\ plast' = [plast EXCEPT !.taken = @ \cup {idx}]
    /\ UNCHANGED <<prox, NotProx>>

\* joblib keeps the result of patch idx at place idx of the list it returns.
PlacedInOrderOfCompletion(results, idx, r) ==
    [results EXCEPT ![CHOOSE k \in 1..Len(results) :
                        results[k] = Pending
                        /\ \A m \in 1..(k - 1) : results[m] # Pending] = r]
StoreResult(results, idx, r) == [results EXCEPT ![idx] = r]

\* A worker returns the shrinkage of the patch it took.
WorkerReturnsPatch ==
    /\ plast.running
    /\ \E idx \in plast.taken :
            plast' = [plast EXCEPT
                        !.taken = @ \ {idx},
                        !.results = StoreResult(@, idx,
                            ProxNuclearNorm(prox, plast.P[idx],
                                            Threshold(prox, Val(plast.extra_factor))))]
    /\ UNCHANGED <<prox, NotProx>>

\* Every patch is back: the list is stitched (lines 123-125 and 146-149).
FinishNuclearNormOp ==
    /\ plast.running
    /\ \A idx \in 1..Len(plast.P) : plast.results[idx] # Pending
    /\ \E r \in {IF Val(prox.overlapping_factor) = 1
                 THEN DisjointStitch(Val(plast.data), plast.results)
                 ELSE OverlapStitch(prox, Val(plast.data), plast.results)} :
            plast' = [plast EXCEPT !.running = FALSE, !.ret = r.ret, !.exc = r.exc]
    /\ UNCHANGED <<prox, NotProx>>

CallNuclearNormGetCost ==
    /\ Idle
    /\ prox.built /\ prox.cls = "NuclearNorm"
    /\ \E data \in NuclearDatas, extra_factor \in ExtraFactors, num_cores \in NumCores :
            plast' = [PCallOf("NuclearNorm.get_cost", data, extra_factor,
                              NuclearNormGetCost(prox, data, extra_factor, num_cores))
                        EXCEPT !.num_cores = Some(num_cores)]
    /\ UNCHANGED <<prox, NotProx>>

NewMultiLevelNuclearNorm ==
    /\ Idle
    /\ \E weights \in WeightsArgs, patch_shape \in PatchShapeArgs,
          linear_op \in LinearOps, overlapping_factor \in OverlappingFactors :
            \E r \in {MultiLevelNuclearNormInit(weights, patch_shape, linear_op,
                                                overlapping_factor)} :
                /\ prox' = r.o
                /\ plast' = [NoPCall EXCEPT
                                !.op = "MultiLevelNuclearNorm.__init__",
                                !.data = Some([weights |-> weights,
                                               patch_shape |-> patch_shape,
                                               linear_op |-> linear_op]),
                                !.exc = r.exc]
    /\ UNCHANGED NotProx

CallMultiLevelNuclearNormOp ==
    /\ Idle
    /\ prox.built /\ prox.cls = "MultiLevelNuclearNorm"
    /\ \E data \in WaveletCoeffs, extra_factor \in ExtraFactors, num_cores \in NumCores :
            \E r \in {MultiLevelNuclearNormOp(prox, data, extra_factor, num_cores)} :
                /\ prox' = r.o
                /\ plast' = [PCallOf("MultiLevelNuclearNorm.op", data, extra_factor, r)
                                EXCEPT !.num_cores = Some(num_cores)]
    /\ UNCHANGED NotProx

CallMultiLevelNuclearNormGetCost ==
    /\ Idle
    /\ prox.built /\ prox.cls = "MultiLevelNuclearNorm"
    /\ \E data \in WaveletCoeffs, extra_factor \in ExtraFactors, num_cores \in NumCores :
            \E r \in {MultiLevelNuclearNormGetCost(prox, data, extra_factor, num_cores)} :
                /\ prox' = r.o
                /\ plast' = [PCallOf("MultiLevelNuclearNorm.get_cost", data,
                                     extra_factor, r)
                                EXCEPT !.num_cores = Some(num_cores)]
    /\ UNCHANGED NotProx

CallOWLOp ==
    /\ Idle
    /\ prox.built /\ prox.cls = "OWL"
    /\ \E data \in ProxDatas, extra_factor \in ExtraFactors :
            plast' = PCallOf("OWL.op", data, extra_factor, OWLOp(prox, data, extra_factor))
    /\ UNCHANGED <<prox, NotProx>>

CallProxOwl ==
    /\ Idle
    /\ prox.built /\ prox.cls = "OWL"
    /\ \E data \in ProxOwlVectors, threshold \in ProxOwlThresholds :
            \E r \in {ProxOwlCall(data, threshold)} :
                plast' = [NoPCall EXCEPT !.op = "OWL._prox_owl",
                                         !.data = Some(Arr(<<Len(data)>>, data)),
                                         !.threshold = threshold,
                                         !.ret = r.ret, !.exc = r.exc]
    /\ UNCHANGED <<prox, NotProx>>

CallOWLGetCost ==
    /\ Idle
    /\ prox.built /\ prox.cls = "OWL"
    /\ \E data \in ProxDatas :
            \E r \in {OWLGetCost(prox, data)} :
                plast' = [NoPCall EXCEPT !.op = "OWL.get_cost", !.data = Some(data),
                                         !.ret = r.ret, !.exc = r.exc,
                                         !.warnings = r.warnings]
    /\ UNCHANGED <<prox, NotProx>>

CallFindAlpha ==
    /\ Idle
    /\ prox.built /\ prox.cls = "k_support_norm"
    /\ \E w \in ProxDatas :
            plast' = [NoPCall EXCEPT !.op = "k_support_norm._find_alpha",
                                     !.data = Some(w), !.exc = FindAlpha(prox, w).exc]
    /\ UNCHANGED <<prox, NotProx>>

CallKSupportNormOp ==
    /\ Idle
    /\ prox.built /\ prox.cls = "k_support_norm"
    /\ \E data \in ProxDatas, extra_factor \in ExtraFactors :
            plast' = PCallOf("k_support_norm.op", data, extra_factor,
                             KSupportNormOp(prox, data, extra_factor))
    /\ UNCHANGED <<prox, NotProx>>

ProxInit ==
    /\ prox = NoProx
    /\ plast = NoPCall

ProxNext ==
    \/ NewGroupLasso
    \/ NewOWL
    \/ NewKSupportNorm
    \/ CallGroupLassoOp
    \/ CallGroupLassoGetCost
    \/ NewSparseGroupLasso
    \/ CallSparseGroupLassoOp
    \/ CallSparseGroupLassoGetCost
    \/ NewNuclearNorm
    \/ CallNuclearNormOp
    \/ StartNuclearNormOp
    \/ WorkerTakesPatch
    \/ WorkerReturnsPatch
    \/ FinishNuclearNormOp
    \/ CallNuclearNormGetCost
    \/ NewMultiLevelNuclearNorm
    \/ CallMultiLevelNuclearNormOp
    \/ CallMultiLevelNuclearNormGetCost
    \/ CallOWLOp
    \/ CallProxOwl
    \/ CallOWLGetCost
    \/ CallFindAlpha
    \/ CallKSupportNormOp

GradInit ==
    /\ cls = "none"
    /\ built = FALSE
    /\ y = None
    /\ ft = None
    /\ smap = None
    /\ mask = None
    /\ spec_rad = None
    /\ inv_spec_rad = None
    /\ grad = None
    /\ last = NoCall

GradNext ==
    \/ NewGradBase
    \/ NewGrad2DAnalysis
    \/ NewGrad2DSynthesis
    \/ NewGrad2DSynthesePmri
    \/ CallGetInitialX
    \/ CallMX
    \/ CallMtX
    \/ CallMtMX
    \/ CallGetGrad
    \/ CallGetSpecRad
    \/ CallPmriGetGrad
    \/ CallPmriMtMX

vars == <<gvars, wvars, pvars>>

Init ==
    /\ GradInit
    /\ WaveletInit
    /\ ProxInit

\* The calls on a gradient operator, on a Wavelet2 adapter, and on a
\* proximity operator.
GradSpec == Init /\ [][GradNext]_vars
LinearSpec == Init /\ [][WaveletNext]_vars
ProxSpec == Init /\ [][ProxNext]_vars

NormsExact ==
    \A i \in 1..Len(last.sr) : \A k \in 1..Len(last.sr[i].norms) :
        last.sr[i].norms[k] # Inexact


(***************************************************************************)
(* Properties of the gradient operators, checked under GradSpec.           *)
(***************************************************************************)
IsConstructor(c) == c.op \in {"Grad2DAnalysis.__init__", "Grad2DSynthesis.__init__"}
Implemented == cls \in {"Grad2DAnalysis", "Grad2DSynthesis"} /\ IsSet(ft)

\* C2: constructing Grad2DAnalysis or Grad2DSynthesis with an ft_cls mapping
\* of more than one key raises ValueError in both classes; no forward model
\* is instantiated from a key, get_spec_rad is not run, and spec_rad and
\* inv_spec_rad stay unset.
MultiKeyRaisesValueError ==
    (IsConstructor(last) /\ last.nkeys > 1) =>
        /\ last.exc = "ValueError"
        /\ last.ninst = 0
        /\ last.sr = <<>>
        /\ ~IsSet(ft) /\ ~IsSet(spec_rad) /\ ~IsSet(inv_spec_rad)

\* A Grad2DSynthesis constructor that met a mapping of several keys and
\* raised NameError.
MultiKeySynthesisNameError ==
    /\ last.op = "Grad2DSynthesis.__init__"
    /\ last.nkeys > 1
    /\ last.exc = "NameError"

\* C3: on a GradBase object that overrides nothing, get_initial_x, MX and
\* MtX raise NotImplementedError and return no value, and so do MtMX,
\* get_grad and get_spec_rad; grad, spec_rad and inv_spec_rad are never
\* assigned.
BaseMethods == {"get_initial_x", "MX", "MtX", "MtMX", "get_grad", "get_spec_rad"}
UnimplementedRaises ==
    cls = "GradBase" =>
        /\ ~IsSet(grad) /\ ~IsSet(spec_rad) /\ ~IsSet(inv_spec_rad)
        /\ last.op \in BaseMethods =>
                /\ last.exc = "NotImplementedError"
                /\ ~IsSet(last.ret)
                /\ last.tr = <<>>

\* MtMX was called on a plain GradBase object.
UnimplementedCalled == cls = "GradBase" /\ last.op = "MtMX" /\ IsSet(last.x)

\* The runs of get_spec_rad in the last call whose loop ran to its end
\* (no stage raised).
LoopRuns == IF last.exc \in {"none", "UnboundLocalError"} THEN last.sr ELSE <<>>
AbsoluteChangeBelow(run, k) ==
    RLt(RAbs(RSub(run.norms[k + 1], run.norms[k])), run.tolerance)
RelativeChangeBelow(run, k) ==
    RLt(RDiv(RAbs(RSub(run.norms[k + 1], run.norms[k])), run.norms[k]), run.tolerance)

\* C4 (as amended): get_spec_rad stops at the first iteration at which the
\* absolute change in L2 norm between consecutive iterates,
\* |norm(x_new) - norm(x_old)|, is below tolerance, or after max_iter
\* iterations, whichever comes first.  run.norms[k + 1] is the norm of the
\* iterate of pass k and run.norms[k] the norm it is compared with.
StopsOnAbsoluteChange ==
    \A i \in 1..Len(LoopRuns) :
        /\ LoopRuns[i].n <= LoopRuns[i].max_iter
        /\ \A k \in 1..(LoopRuns[i].n - 1) : ~AbsoluteChangeBelow(LoopRuns[i], k)
        /\ LoopRuns[i].n < LoopRuns[i].max_iter =>
                AbsoluteChangeBelow(LoopRuns[i], LoopRuns[i].n)

\* C4 as stated: the stopping test is on the relative change
\* |norm(x_new) - norm(x_old)| / norm(x_old).
StopsOnRelativeChange ==
    \A i \in 1..Len(LoopRuns) :
        /\ LoopRuns[i].n <= LoopRuns[i].max_iter
        /\ \A k \in 1..(LoopRuns[i].n - 1) : ~RelativeChangeBelow(LoopRuns[i], k)
        /\ LoopRuns[i].n < LoopRuns[i].max_iter =>
                RelativeChangeBelow(LoopRuns[i], LoopRuns[i].n)

\* An explicit get_spec_rad call that went through a pass that did not stop
\* and then stopped on the test, before max_iter.
StoppedByTest ==
    /\ last.op = "get_spec_rad"
    /\ last.exc = "none"
    /\ last.sr[1].n > 1
    /\ last.sr[1].n < last.sr[1].max_iter

\* The object's normal operator is the identity: MtMX(x) = x on a basis.
NormalIsIdentity ==
    /\ Implemented
    /\ \A x \in Xs : MtMX(Self, Ret(x)).exc = "none" /\ MtMX(Self, Ret(x)).v = x
DefaultRun(run) ==
    /\ run.tolerance = DefaultTolerance
    /\ run.max_iter = DefaultMaxIter
    /\ run.coef_mul = DefaultCoefMul

\* C5 (as amended): for a forward model whose normal operator is the
\* identity and any non-zero initial vector, the spec_rad left by
\* get_spec_rad with its default arguments is within tolerance of coef_mul
\* (1.1), coef_mul times the eigenvalue 1.
IdentitySpecRadIsCoefMul ==
    \A i \in 1..Len(last.sr) :
        (NormalIsIdentity /\ DefaultRun(last.sr[i])) =>
            /\ last.exc = "none"
            /\ IsSet(spec_rad)
            /\ RLt(RAbs(RSub(Val(spec_rad), DefaultCoefMul)), DefaultTolerance)

\* C5 as stated: that spec_rad is within tolerance of 1.
IdentitySpecRadIsOne ==
    \A i \in 1..Len(last.sr) :
        (NormalIsIdentity /\ DefaultRun(last.sr[i])) =>
            /\ last.exc = "none"
            /\ IsSet(spec_rad)
            /\ RLt(RAbs(RSub(Val(spec_rad), One)), DefaultTolerance)

\* get_spec_rad ran with its defaults on an identity normal operator from
\* an initial vector of norm 1/2, and took two passes.
IdentityDefaultRun ==
    /\ NormalIsIdentity
    /\ last.sr # <<>>
    /\ DefaultRun(last.sr[1])
    /\ last.sr[1].norms[1] = <<1, 2>>
    /\ last.sr[1].n = 2

\* C6: for every max_iter >= 0 and every non-zero initial vector,
\* get_spec_rad applies MtMX at most max_iter times and then sets spec_rad
\* to coef_mul times the L2 norm of the last iterate computed and
\* inv_spec_rad to 1/spec_rad; the constructors of Grad2DAnalysis and
\* Grad2DSynthesis run it exactly once.
SpecRadAlwaysSet ==
    /\ (IsConstructor(last) /\ last.exc = "none") => Len(last.sr) = 1
    /\ \A i \in 1..Len(last.sr) :
        Implemented =>
            /\ last.exc = "none"
            /\ last.sr[i].n <= last.sr[i].max_iter
            /\ IsSet(last.sr[i].x_new)
            /\ spec_rad = Some(RMul(last.sr[i].coef_mul, Norm(Val(last.sr[i].x_new))))
            /\ inv_spec_rad = Some(RDiv(One, Val(spec_rad)))
            /\ RMul(Val(spec_rad), Val(inv_spec_rad)) = One

\* get_spec_rad(max_iter=0) on a Grad2DAnalysis or Grad2DSynthesis object
\* raised UnboundLocalError.
ZeroMaxIterRaises ==
    /\ Implemented
    /\ last.op = "get_spec_rad"
    /\ last.sr[1].max_iter = 0
    /\ last.exc = "UnboundLocalError"

\* The gradient the parallel-imaging variant is to compute: the per-channel
\* adjoint of MX(x) - y, summed over the channel axis.
PmriGradOf(o, x) == PmriSum(PmriMtXBody(o, PmriMinusY(o, PmriMXBody(o, Ret(x)))))
PmriNormalOf(o, x) == PmriSum(PmriMtXBody(o, PmriMXBody(o, Ret(x))))

\* C7: get_grad(x) stores MtX(MX(x) - y) in grad; on Grad2DSynthese_Pmri,
\* get_grad(x) and MtMX(x), called with the one argument x, compute the
\* per-channel adjoint of MX(x) - y (resp. of MX(x)) summed over the
\* channel axis.
GradIsAdjointOfResidual ==
    /\ (last.op = "get_grad" /\ Implemented) =>
            /\ last.exc = "none"
            /\ grad = Some(MtX(Self, MinusY(Self, MX(Self, Ret(Val(last.x))))).v)
    /\ last.op = "Pmri.get_grad" =>
            /\ last.exc = "none"
            /\ grad = Some(PmriGradOf(Self, Val(last.x)).v)
    /\ last.op = "Pmri.MtMX" =>
            /\ last.exc = "none"
            /\ last.ret = Some(PmriNormalOf(Self, Val(last.x)).v)

\* get_grad(x) on a Grad2DSynthese_Pmri object raised TypeError and left
\* grad unset.
PmriGetGradTypeError ==
    /\ cls = "Grad2DSynthese_Pmri"
    /\ last.op = "Pmri.get_grad"
    /\ last.exc = "TypeError"
    /\ ~IsSet(grad)

\* C8: in Grad2DSynthesis, MX calls linear.adj_op then ft.op, MtX calls
\* ft.adj_op then linear.op, and MtMX(x) is MtX(MX(x)): the four stage
\* calls linear.adj_op, ft.op, ft.adj_op, linear.op, once each in that
\* order.
SynthesisStageOrder ==
    (cls = "Grad2DSynthesis" /\ built) =>
        /\ last.op = "MX" =>
                /\ last.tr = <<"linear.adj_op", "ft.op">>
                /\ last.ret = Some(VMul(Val(ft).gain, Swap(RotT(Val(last.x)))))
        /\ last.op = "MtX" =>
                /\ last.tr = <<"ft.adj_op", "linear.op">>
                /\ last.ret = Some(Rot(Swap(VMul(Val(ft).gain, Val(last.x)))))
        /\ last.op = "MtMX" =>
                /\ last.tr = <<"linear.adj_op", "ft.op", "ft.adj_op", "linear.op">>
                /\ last.ret = Some(MtX(Self, MX(Self, Ret(Val(last.x)))).v)

\* MtMX returned on a Grad2DSynthesis object whose forward model drops a
\* sample.
SynthesisMtMXCalled ==
    /\ cls = "Grad2DSynthesis" /\ built
    /\ last.op = "MtMX"
    /\ last.exc = "none"
    /\ Val(ft).gain[2] = Zero

(***************************************************************************)
(* Properties of the Wavelet2 adapter, checked under LinearSpec.           *)
(***************************************************************************)
\* C9: Wavelet2 construction validates wavelet_name against the registry of
\* available transforms before anything is built: for a name not in the
\* registry it raises ValueError, the transform is neither loaded nor
\* instantiated, and no adapter with a transform attribute exists.
UnknownNameFailsFirst ==
    (wlast.op = "__init__" /\ wlast.name \notin AvailableTransforms) =>
        /\ wlast.exc = "ValueError"
        /\ wlast.steps = <<>>
        /\ ~wav.built
        /\ ~IsSet(wav.transform)
        /\ ~IsSet(wav.coeffs_shape)

\* Wavelet2 was constructed with a name the registry does not hold.
UnknownNameGiven ==
    /\ wlast.op = "__init__"
    /\ wlast.name = "NoSuchTransform"
    /\ wlast.exc # "none"

\* C10: for every interleaving of op, l2norm and adj_op on one adapter,
\* adj_op(c) unflattens c with the manifest of the op call that produced
\* c, never with the manifest of another op call (the one inside l2norm
\* included), and adj_op before any op fails.
AdjOpUsesOwnManifest ==
    wlast.op = "adj_op" =>
        /\ ~IsSet(wlast.used) => wlast.exc # "none"
        /\ (wlast.cid # 0 /\ wlast.exc = "none") =>
                /\ IsSet(wlast.used)
                /\ Val(wlast.used).by = wlast.cid
                /\ Val(wlast.used).m = Val(wlast.made)

\* adj_op returned an image for coefficients of one op call, cut with the
\* different manifest that the op call inside a later l2norm left.
AdjOpUsedLaterManifest ==
    /\ wlast.op = "adj_op"
    /\ wlast.exc = "none"
    /\ wlast.cid # 0
    /\ Val(wlast.used).by > wlast.cid
    /\ Val(wlast.used).m # Val(wlast.made)
    /\ \A i \in 1..Len(held) : held[i].id # Val(wlast.used).by

(***************************************************************************)
(* Properties of the proximity operators, checked under ProxSpec.          *)
(***************************************************************************)
OpCalls == {"GroupLasso.op", "OWL.op", "k_support_norm.op"}

\* C1: for every proximity operator and every input array data,
\* op(data, extra_factor=0) returns an array equal to data, inputs with
\* zero entries or all-zero groups included.
ZeroThresholdIsIdentity ==
    (plast.op \in OpCalls /\ plast.extra_factor = Some(Zero)) =>
        /\ plast.exc = "none"
        /\ plast.ret = plast.data

\* OWL.op(data, 0) in 'coeff_based' mode returned an array with nan where
\* data has a zero entry.
OWLZeroEntryGivesNaN ==
    /\ plast.op = "OWL.op"
    /\ prox.mode = Some("coeff_based")
    /\ plast.extra_factor = Some(Zero)
    /\ plast.exc = "none"
    /\ Val(plast.ret).shape = Val(plast.data).shape
    /\ \E i \in 1..Len(Val(plast.data).v) :
            Val(plast.data).v[i] = Zero /\ IsNaN(Val(plast.ret).v[i])

\* The norms the proximity operators took are exact.
ProxNormsExact ==
    \A data \in GroupLassoDatas : \A j \in 1..NCols(data) : NormAxis0(data, j) # Inexact


\* The threshold and the group norm of entry i of the last call.
LastThreshold == RMul(Val(prox.weights)[1][1], Val(plast.extra_factor))
GroupNormAt(i) == NormAxis0(Val(plast.data), ColOf(Val(plast.data), i))
GroupLassoReturned ==
    /\ plast.op = "GroupLasso.op"
    /\ plast.exc = "none"
    /\ Val(plast.ret).shape = Val(plast.data).shape
    /\ ~HasNaN(Val(plast.ret))
\* Entry i is what the claim says of a group of norm n and a threshold t.
ZeroOrReducedBy(i, n, t) ==
    IF RLe(n, t) THEN Val(plast.ret).v[i] = Zero
    ELSE Val(plast.ret).v[i] = RMul(Val(plast.data).v[i], RDiv(RSub(n, t), n))

\* C12 as stated: GroupLasso.op maps every group of norm n <= weights *
\* extra_factor to zeros and reduces the norm of any other group by exactly
\* weights * extra_factor, keeping its direction, without nan.
GroupShrinksByThreshold ==
    plast.op = "GroupLasso.op" =>
        /\ GroupLassoReturned
        /\ \A i \in 1..Len(Val(plast.data).v) :
                ZeroOrReducedBy(i, GroupNormAt(i), LastThreshold)

\* C12, amended: that holds for the groups whose norm is zero or at least
\* float32's eps; the entries of a group with a norm in between are
\* multiplied by max(0, 1 - weights * extra_factor / eps).
GroupShrinksAboveEps ==
    plast.op = "GroupLasso.op" =>
        /\ GroupLassoReturned
        /\ \A i \in 1..Len(Val(plast.data).v) :
                IF GroupNormAt(i) = Zero \/ RLe(Eps32, GroupNormAt(i))
                THEN ZeroOrReducedBy(i, GroupNormAt(i), LastThreshold)
                ELSE Val(plast.ret).v[i] =
                        RMul(Val(plast.data).v[i],
                             RMax(Zero, RSub(One, RDiv(LastThreshold, Eps32))))

\* GroupLasso.op was applied with a positive threshold to an array with an
\* all-zero group and a group of a larger norm than the threshold.
GroupLassoZeroAndLargeGroup ==
    /\ GroupLassoReturned
    /\ RLt(Zero, LastThreshold)
    /\ \E i \in 1..Len(Val(plast.data).v) : GroupNormAt(i) = Zero
    /\ \E i \in 1..Len(Val(plast.data).v) :
            RLt(LastThreshold, GroupNormAt(i)) /\ Val(plast.ret).v[i] # Zero


\* The L2 norm of group j of the last call's data, and the sum of the first
\* j of them.
LastGroupNorm(j) == SqrtSurd(SumSq(Column(Val(plast.data), j), Val(plast.data).shape[1]))
RECURSIVE LastGroupNorms(_)
LastGroupNorms(j) ==
    IF j = 0 THEN NoSurds ELSE AddSurd(LastGroupNorms(j - 1), LastGroupNorm(j))
FourRootThree == [r \in Radicands |-> IF r = 3 THEN RInt(4) ELSE Zero]

\* C13: GroupLasso.get_cost(data) is the sum over the groups along the
\* leading axis of the group's L2 norm, whatever weights is; for the 3x4
\* array of ones it is 4 * sqrt(3).
CostIsSumOfGroupNorms ==
    plast.op = "GroupLasso.get_cost" =>
        /\ plast.exc = "none"
        /\ plast.ret = Some(LastGroupNorms(NCols(Val(plast.data))))
        /\ plast.data = Some(Ones34) => plast.ret = Some(FourRootThree)

\* GroupLasso.get_cost was applied to the 3x4 array of ones by an operator
\* whose weights is not 1.
CostOfOnesTaken ==
    /\ plast.op = "GroupLasso.get_cost"
    /\ plast.data = Some(Ones34)
    /\ plast.ret = Some(FourRootThree)
    /\ Val(prox.weights)[1][1] # One

\* The square roots the costs took have a radicand of Radicands.
CostRadicandsKnown ==
    \A data \in CostDatas : \A j \in 1..NCols(data) :
        SqrtSurd(SumSq(Column(data, j), data.shape[1])).rad \in Radicands \cup {0}


\* The soft threshold of the last call's data by weights_l1 * extra_factor,
\* and the group norm of its entry i.
LastSoft ==
    Arr(Val(plast.data).shape,
        [i \in 1..Len(Val(plast.data).v) |->
            SoftThreshold(Val(plast.data).v[i],
                          RMul(Val(prox.weights_l1), Val(plast.extra_factor)))])
LastSoftNormAt(i) == NormAxis0(LastSoft, ColOf(LastSoft, i))

\* C14: SparseGroupLasso.op(data, extra_factor) is the group-lasso operator
\* (weights_l2) applied to the soft threshold (weights_l1) of data, both
\* with the same extra_factor.
SoftThresholdThenGroupLasso ==
    plast.op = "SparseGroupLasso.op" =>
        /\ plast.exc = "none"
        /\ Val(plast.ret).shape = Val(plast.data).shape
        /\ \A i \in 1..Len(Val(plast.data).v) :
                Val(plast.ret).v[i] =
                    RMul(LastSoft.v[i],
                         RMax(Zero, RSub(One,
                            RDiv(RMul(Val(prox.weights_l2), Val(plast.extra_factor)),
                                 RMax(LastSoftNormAt(i), Eps32)))))

\* SparseGroupLasso.op was applied where both stages change the data: the
\* soft threshold moved an entry and the group-lasso shrank what was left.
BothStagesActed ==
    /\ plast.op = "SparseGroupLasso.op"
    /\ plast.exc = "none"
    /\ \E i \in 1..Len(Val(plast.data).v) :
            /\ LastSoft.v[i] # Val(plast.data).v[i]
            /\ LastSoft.v[i] # Zero
            /\ Val(plast.ret).v[i] # LastSoft.v[i]
            /\ Val(plast.ret).v[i] # Zero

\* C15 as stated: SparseGroupLasso.get_cost(data) returns normally, with
\* the sum of the soft-threshold cost and the group-lasso cost of data.
SparseCostReturns ==
    plast.op = "SparseGroupLasso.get_cost" =>
        /\ plast.exc = "none"
        /\ IsSet(plast.ret)

\* SparseGroupLasso.get_cost raised AttributeError after the soft-threshold
\* cost had returned.
SparseCostAttributeError ==
    /\ plast.op = "SparseGroupLasso.get_cost"
    /\ plast.exc = "AttributeError"
    /\ plast.ret = None


\* No value of a NuclearNorm call stands for an irrational number.
NuclearValuesExact ==
    (plast.op \in {"NuclearNorm.op", "NuclearNorm.get_cost"} /\ plast.exc = "none"
        /\ ~plast.running) =>
        IF plast.op = "NuclearNorm.op"
        THEN \A i \in 1..Len(Val(plast.ret).v) : Val(plast.ret).v[i] # Inexact
        ELSE Val(plast.ret) # Inexact /\ Val(plast.ret)[1] >= 0


\* A NuclearNorm.op call that has ended, and its data, image and grid.
NuclearOpEnded == plast.op = "NuclearNorm.op" /\ ~plast.running
LastData == Val(plast.data)
LastIsOnePatch == Tail(LastData.shape) = Val(prox.patch_shape)
\* The matrix (pixels x channels) of the whole array has no singular value
\* above the threshold.
LastSingularValuesBelow ==
    /\ SingularSum(MoveAxis0ToLast(LastData).v, Len(LastData.v) \div LastData.shape[1],
                   LastData.shape[1]) # Inexact
    /\ \/ /\ RankOne(MoveAxis0ToLast(LastData).v, Len(LastData.v) \div LastData.shape[1],
                     LastData.shape[1])
          /\ RLe(Frobenius(LastData.v), Threshold(prox, Val(plast.extra_factor)))
       \/ \A i \in 1..Len(LastData.v) :
            RLe(RAbs(LastData.v[i]), Threshold(prox, Val(plast.extra_factor)))

\* C16 as stated: when data.shape[1:] is patch_shape, NuclearNorm.op returns
\* an array of data's shape, whatever the last dimension of the patch shape
\* is, and an all-zero one when no singular value of the (pixels x
\* channels) matrix is above weights * extra_factor.
OnePatchKeepsShape ==
    (NuclearOpEnded /\ LastIsOnePatch) =>
        /\ plast.exc = "none"
        /\ Val(plast.ret).shape = LastData.shape
        /\ LastSingularValuesBelow =>
                \A i \in 1..Len(Val(plast.ret).v) : Val(plast.ret).v[i] = Zero

\* NuclearNorm.op raised ValueError on data of one patch whose last
\* dimension is greater than 1.
OnePatchValueError ==
    /\ NuclearOpEnded /\ LastIsOnePatch
    /\ Last(Val(prox.patch_shape)) > 1
    /\ plast.exc = "ValueError"

\* C17 as stated: with overlapping_factor 1 and a zero threshold,
\* NuclearNorm.op on data whose spatial shape is a multiple of the patch
\* shape returns an array equal to data, channel axis first.
DisjointZeroThresholdIsData ==
    (/\ NuclearOpEnded /\ ~LastIsOnePatch
     /\ prox.overlapping_factor = Some(1)
     /\ Threshold(prox, Val(plast.extra_factor)) = Zero
     /\ LastData.shape[2] % Val(prox.patch_shape)[1] = 0
     /\ LastData.shape[3] % Val(prox.patch_shape)[2] = 0) =>
        /\ plast.exc = "none"
        /\ plast.ret = plast.data

\* With a zero threshold the disjoint branch returned the data with the
\* channel axis last, which is another array than data.
DisjointReturnsChannelLast ==
    /\ NuclearOpEnded /\ ~LastIsOnePatch
    /\ prox.overlapping_factor = Some(1)
    /\ Threshold(prox, Val(plast.extra_factor)) = Zero
    /\ plast.exc = "none"
    /\ plast.ret = Some(MoveAxis0ToLast(LastData))
    /\ plast.ret # plast.data

SequentialCost == NuclearNormGetCost(prox, LastData, Val(plast.extra_factor), 1)

\* C19 as stated: where NuclearNorm.get_cost returns for num_cores = 1
\* (weights * extra_factor times the sum over the patches of the sum of the
\* magnitudes of the singular values), it returns the same scalar for any
\* other num_cores.
CostSameForAnyCores ==
    (plast.op = "NuclearNorm.get_cost" /\ SequentialCost.exc = "none") =>
        /\ plast.exc = "none"
        /\ plast.ret = SequentialCost.ret

\* NuclearNorm.get_cost raised with num_cores = 2 on data whose cost it
\* returns with num_cores = 1.
ParallelCostRaises ==
    /\ plast.op = "NuclearNorm.get_cost"
    /\ plast.num_cores = Some(2)
    /\ SequentialCost.exc = "none"
    /\ plast.exc \in {"AttributeError", "TypeError"}


\* The calls of op and get_cost, and the fields an operator is configured
\* with.
MultiLevelCalls == {"MultiLevelNuclearNorm.op", "MultiLevelNuclearNorm.get_cost"}
AllCalls ==
    OpCalls \cup MultiLevelCalls
    \cup {"GroupLasso.get_cost", "SparseGroupLasso.op", "SparseGroupLasso.get_cost",
          "NuclearNorm.op", "NuclearNorm.get_cost"}
SameScaleFields(o1, o2) == o2.weights = o1.weights /\ o2.patch_shape = o1.patch_shape
SameOtherFields(o1, o2) ==
    /\ o2.overlapping_factor = o1.overlapping_factor
    /\ o2.mode = o1.mode
    /\ o2._weights = o1._weights
    /\ o2._patch_shape = o1._patch_shape
    /\ o2.weights_l1 = o1.weights_l1
    /\ o2.weights_l2 = o1.weights_l2
    /\ o2.cls = o1.cls
\* The operator holds the weight and the patch shape of scale k.
HoldsScale(o, k) ==
    /\ o.weights = Some(Scalar(Val(o._weights)[k]))
    /\ o.patch_shape = Some(Val(o._patch_shape)[k])

LastArgs == Val(plast.data)

\* C20 as stated: MultiLevelNuclearNorm(weights, patch_shape) raises
\* ValueError when both are lists of different lengths; in every other
\* case it succeeds, with _weights and _patch_shape of the same length.
ConstructionBroadcasts ==
    plast.op = "MultiLevelNuclearNorm.__init__" =>
        IF LastArgs.weights.list /\ LastArgs.patch_shape.list
            /\ Len(LastArgs.weights.v) # Len(LastArgs.patch_shape.v)
        THEN plast.exc = "ValueError"
        ELSE /\ plast.exc = "none"
             /\ prox.built
             /\ Len(Val(prox._weights)) = Len(Val(prox._patch_shape))

\* The construction with one scalar weight and a list of patch shapes
\* raised TypeError after it had built the two lists.
ScalarWeightTypeError ==
    /\ plast.op = "MultiLevelNuclearNorm.__init__"
    /\ ~LastArgs.weights.list
    /\ LastArgs.patch_shape.list
    /\ plast.exc = "TypeError"
    /\ Len(Val(prox._weights)) = Len(Val(prox._patch_shape))

\* The modes OWL.op has a branch for (lines 385, 389, 402).
KnownModes == {"all", "band_based", "coeff_based"}

\* C21: an OWL with a mode other than 'all', 'band_based' or 'coeff_based'
\* cannot be constructed, whether or not beta is supplied, so no call of
\* op on a constructed OWL fails because of its mode.
UnknownModeIsNotConstructed ==
    /\ (plast.op = "OWL.__init__" /\ Val(prox.mode) \notin KnownModes) =>
            (plast.exc # "none" /\ ~prox.built)
    /\ (prox.cls = "OWL" /\ prox.built) => Val(prox.mode) \in KnownModes
    /\ plast.op = "OWL.op" => plast.exc # "UnboundLocalError"

\* An OWL built without beta holds an unknown mode, and its op raised
\* UnboundLocalError at line 407.
UnknownModeFailsInOp ==
    /\ plast.op = "OWL.op"
    /\ prox.built
    /\ Val(prox.mode) \notin KnownModes
    /\ prox.weights = Some(Scalar(One))
    /\ plast.exc = "UnboundLocalError"

\* C22: OWL.get_cost(data) returns the placeholder 0 after one warning,
\* never raises, and leaves the operator (weights and mode included) as it
\* was, for every input.
GetCostWarnsAndReturnsZero ==
    [][plast'.op = "OWL.get_cost" =>
            /\ plast'.exc = "none"
            /\ plast'.ret = Some(Zero)
            /\ plast'.warnings = 1
            /\ prox'.weights = prox.weights
            /\ prox'.mode = prox.mode
            /\ prox' = prox]_vars

\* get_cost returned 0 with one warning on an OWL whose op cannot run (the
\* mode is unknown) for an array with a zero entry.
GetCostOfUnknownModeTaken ==
    /\ plast.op = "OWL.get_cost"
    /\ prox.built
    /\ Val(prox.mode) \notin KnownModes
    /\ Zero \in {Val(plast.data).v[i] : i \in 1..Len(Val(plast.data).v)}
    /\ plast.ret = Some(Zero)
    /\ plast.warnings = 1

\* The last call of _prox_owl: its data, its output, and the magnitudes of
\* a vector in descending order.
ProxOwlCalled == plast.op = "OWL._prox_owl"
ProxOwlData == Val(plast.data).v
ProxOwlOut == Val(plast.ret).v
SameLength == Len(plast.threshold) = Len(ProxOwlData)
SortedAbs(v) == [r \in 1..Len(v) |-> RAbs(v[IndexAt(v, r)])]
ThresholdedAt(r) == RMax(Zero, RSub(SortedAbs(ProxOwlData)[r], plast.threshold[r]))

\* C23: for every data vector and every threshold vector of the same
\* length, the magnitudes of _prox_owl's output in descending order are
\* non-negative, non-increasing and at every place at most
\* max(s - threshold, 0), with s the magnitudes of the input in descending
\* order.
SortedMagnitudesBounded ==
    (ProxOwlCalled /\ SameLength) =>
        /\ plast.exc = "none"
        /\ ~HasNaN(Val(plast.ret))
        /\ \A r \in 1..Len(ProxOwlOut) :
                /\ RLe(Zero, SortedAbs(ProxOwlOut)[r])
                /\ r > 1 => RLe(SortedAbs(ProxOwlOut)[r], SortedAbs(ProxOwlOut)[r - 1])
                /\ RLe(SortedAbs(ProxOwlOut)[r], ThresholdedAt(r))

\* _prox_owl returned a vector with a magnitude that is not a number.
ProxOwlMagnitudeIsNaN ==
    /\ ProxOwlCalled
    /\ SameLength
    /\ plast.exc = "none"
    /\ HasNaN(Val(plast.ret))
    /\ \E i \in 1..Len(ProxOwlOut) : ~IsNaN(ProxOwlOut[i]) /\ RLt(Zero, RAbs(ProxOwlOut[i]))

\* _prox_owl of a vector without zero entries returned a magnitude above
\* max(s - threshold, 0): the isotonic regression pooled two places.
PooledAboveThresholded ==
    /\ ProxOwlCalled
    /\ SameLength
    /\ plast.exc = "none"
    /\ ~HasNaN(Val(plast.ret))
    /\ \E r \in 1..Len(ProxOwlOut) : RLt(ThresholdedAt(r), SortedAbs(ProxOwlOut)[r])

\* The magnitude _prox_owl computed for the rank of entry i.
ProjectedAt(i) ==
    IsotonicRegression(SortedMinusThreshold(ProxOwlData, plast.threshold))
        [Rank(ProxOwlData, i)]

\* C24: _prox_owl undoes its sort and keeps the sign: output entry i is
\* the magnitude computed for the rank of input entry i times the sign of
\* input entry i, a non-zero output entry has the sign of the input entry
\* at its index, and a zero input entry yields zero, never an undefined
\* value.
SortUndoneAndSignKept ==
    (ProxOwlCalled /\ plast.exc = "none") =>
        \A i \in 1..Len(ProxOwlData) :
            /\ ~IsNaN(ProxOwlOut[i])
            /\ ProxOwlData[i] = Zero => ProxOwlOut[i] = Zero
            /\ RAbs(ProxOwlOut[i]) = ProjectedAt(i)
            /\ ProxOwlOut[i] # Zero => SignData(ProxOwlOut[i]) = SignData(ProxOwlData[i])

\* _prox_owl returned nan at the index of a zero entry, next to a
\* non-zero entry whose sign and projected magnitude it kept.
ZeroEntryOfVectorGivesNaN ==
    /\ ProxOwlCalled
    /\ plast.exc = "none"
    /\ \E i, j \in 1..Len(ProxOwlData) :
            /\ ProxOwlData[i] = Zero
            /\ IsNaN(ProxOwlOut[i])
            /\ ProxOwlData[j] # Zero
            /\ RAbs(ProxOwlOut[j]) = ProjectedAt(j)
            /\ RLt(Zero, ProjectedAt(j))
            /\ SignData(ProxOwlOut[j]) = SignData(ProxOwlData[j])

\* Without zero entries the output of _prox_owl is the projected
\* magnitude at the rank of each entry with the entry's sign.
NonZeroEntriesKeepSign ==
    (ProxOwlCalled /\ plast.exc = "none" /\ Zero \notin {ProxOwlData[i] : i \in 1..Len(ProxOwlData)}) =>
        \A i \in 1..Len(ProxOwlData) :
            /\ RAbs(ProxOwlOut[i]) = ProjectedAt(i)
            /\ ProxOwlOut[i] # Zero => SignData(ProxOwlOut[i]) = SignData(ProxOwlData[i])

\* The last call of OWL.op on a two-dimensional array in one of the two
\* modes that work column by column, and whether the sizes the operator
\* was built with agree with the array: the bands add up to the columns
\* and every weight vector has the length of its pass.  An operator built
\* with plain weights has one weight for every pass.
OWLOpData == Val(plast.data)
ColumnModeCalled ==
    /\ plast.op = "OWL.op"
    /\ Val(prox.mode) \in {"band_based", "coeff_based"}
    /\ Len(OWLOpData.shape) = 2
BandsAgree ==
    /\ BandStart(Val(prox.band_shape), Len(Val(prox.band_shape)) + 1) = NCols(OWLOpData)
    /\ \A b \in 1..Len(Val(prox.band_shape)) : BandFits(prox, OWLOpData, b)
SizesAgree ==
    IF Val(prox.mode) = "coeff_based"
    THEN Broadcasts(Column(OWLOpData, 1), Val(prox.weights)[1])
    ELSE IsSet(prox.band_shape) => BandsAgree
ColumnPass(i) ==
    ProxOwl(Column(OWLOpData, ColOf(OWLOpData, i)),
            Scaled(Val(prox.weights)[1], Val(plast.extra_factor)))
        [((i - 1) \div NCols(OWLOpData)) + 1]
BandPass(i) ==
    BandEntry(prox, OWLOpData, Val(plast.extra_factor),
              CHOOSE b \in BandsOf(prox, ColOf(OWLOpData, i)) : TRUE,
              ((i - 1) \div NCols(OWLOpData)) + 1, ColOf(OWLOpData, i))
PassesCoverColumns ==
    /\ plast.exc = "none"
    /\ Val(plast.ret).shape = OWLOpData.shape
    /\ \A i \in 1..Len(OWLOpData.v) :
            IF Val(prox.mode) = "coeff_based"
            THEN Val(plast.ret).v[i] = ColumnPass(i)
            ELSE /\ IsSet(prox.band_shape)
                 /\ Cardinality(BandsOf(prox, ColOf(OWLOpData, i))) = 1
                 /\ Val(plast.ret).v[i] = BandPass(i)

\* C25: in 'band_based' mode OWL.op runs one pass per band over the
\* band's consecutive columns of all channels with the band's own weight
\* vector, in 'coeff_based' mode one pass per column with the shared
\* weight vector; both modes work for an OWL built with plain weights as
\* well as with OSCAR weights, and every column is covered by exactly one
\* pass.
ColumnModesWork ==
    (ColumnModeCalled /\ SizesAgree) => PassesCoverColumns

\* OWL.op in 'band_based' mode on an OWL built with plain weights raised
\* AttributeError: band_shape was never set.
PlainBandBasedAttributeError ==
    /\ ColumnModeCalled
    /\ Val(prox.mode) = "band_based"
    /\ prox.weights = Some(Scalar(One))
    /\ ~IsSet(prox.band_shape)
    /\ plast.exc = "AttributeError"

\* With OSCAR weights in 'band_based' mode, and with either weights in
\* 'coeff_based' mode, the passes cover the columns as C25 says.
OscarColumnModesWork ==
    (ColumnModeCalled /\ SizesAgree /\ (Val(prox.mode) = "band_based" => IsSet(prox.band_shape)))
        => PassesCoverColumns
\* Both kinds of weights and both modes have returned.
PlainCoeffBasedReturned ==
    /\ ColumnModeCalled
    /\ Val(prox.mode) = "coeff_based"
    /\ plast.exc = "none"
    /\ Len(Val(prox.weights)[1]) = 1
OscarBandBasedReturned ==
    /\ ColumnModeCalled
    /\ Val(prox.mode) = "band_based"
    /\ plast.exc = "none"
    /\ Len(Val(prox.band_shape)) = 2

\* C26: for every non-empty input vector, cardinality k and weight
\* lambda, _find_alpha ends by returning the breakpoints q and l, and
\* never reads outside the sorted data.
FindAlphaReturnsBreakpoints ==
    plast.op = "k_support_norm._find_alpha" =>
        /\ plast.exc = "none"
        /\ plast.exc # "IndexError"
        /\ IsSet(plast.ret)

\* _find_alpha of a vector of two entries ended in the first pass of its
\* loop with AttributeError: the operator has no attribute lmbda.
FindAlphaAttributeError ==
    /\ plast.op = "k_support_norm._find_alpha"
    /\ prox.built
    /\ Val(plast.data).shape = <<2>>
    /\ ~HasNaN(Val(plast.data))
    /\ plast.exc = "AttributeError"
    /\ ~IsSet(plast.ret)

\* _find_alpha of a vector of one entry read data_sorted[1]: IndexError.
FindAlphaIndexError ==
    /\ plast.op = "k_support_norm._find_alpha"
    /\ Val(plast.data).shape = <<1>>
    /\ plast.exc = "IndexError"

\* C27: OWL.op returns an array with the shape of its input in each of
\* the modes 'all', 'band_based' and 'coeff_based', for inputs of any
\* number of dimensions.
OWLOpKeepsShape ==
    (plast.op = "OWL.op" /\ Val(prox.mode) \in KnownModes) =>
        /\ plast.exc # "IndexError"
        /\ plast.exc = "none" => Val(plast.ret).shape = OWLOpData.shape

\* OWL.op in mode 'all' returned the flattened vector of four entries
\* for an array of shape (2, 2).
AllModeReturnsFlattened ==
    /\ plast.op = "OWL.op"
    /\ Val(prox.mode) = "all"
    /\ plast.exc = "none"
    /\ OWLOpData.shape = <<2, 2>>
    /\ Val(plast.ret).shape = <<4>>

\* OWL.op in mode 'coeff_based' on a one-dimensional array raised
\* IndexError at data.shape[1].
CoeffBasedOneDimIndexError ==
    /\ plast.op = "OWL.op"
    /\ Val(prox.mode) = "coeff_based"
    /\ Len(OWLOpData.shape) = 1
    /\ plast.exc = "IndexError"

\* On two-dimensional arrays the modes 'band_based' and 'coeff_based'
\* return the shape of the input, and so does mode 'all' on vectors.
ColumnModesKeepShape ==
    (plast.op = "OWL.op" /\ plast.exc = "none"
        /\ (Val(prox.mode) = "all" => Len(OWLOpData.shape) = 1)) =>
            Val(plast.ret).shape = OWLOpData.shape

====
